---- MODULE Spec2Model ----
(***************************************************************************)
(* A model of pysolrtornado.py: the request dispatcher (_send_request),    *)
(* the error scraper (_scrape_response), the value codec (_from_python,    *)
(* _to_python) and the facade operations built on them.                    *)
(*                                                                         *)
(* Text is a sequence of one-character strings, so that the string         *)
(* operations of the source (replace, strip, startswith, lower, "in",      *)
(* re.search, format) are computed character by character.                 *)
(***************************************************************************)
EXTENDS Integers, Sequences, FiniteSets, TLC

VARIABLES
    url,        \* Solr.url, the configured base URL (set by __init__)
    pc,         \* where the one client call is: "idle", "fetching", "done"
    op,         \* the operation called and its arguments
    sent,       \* the HTTP requests handed to the transport by the call
    fetched,    \* what the transport delivered for the request
    outcome,    \* how the call ended: a returned text or a raised exception
    scrIn,      \* the (headers, response) pair given to _scrape_response
    scrOut,     \* what _scrape_response did with it
    pyVal,      \* the native value given to _from_python
    wire,       \* the text _from_python produced
    back,       \* what _to_python made of that text
    toPyIn,     \* the value given to _to_python
    toPyOut,    \* what _to_python returned or raised for it
    buildIn,    \* the (doc, boost, fieldUpdates) given to _build_doc
    doc_elem,   \* the doc element _build_doc returned
    sanIn,      \* the text given to sanitize
    sanOut,     \* the text sanitize returned
    joinPath,   \* the path given to _create_full_url
    full_url,   \* the URL _create_full_url returned
    termsIn,    \* the decoded response suggest_terms works on
    termsOut,   \* the result of suggest_terms
    timeout,    \* Solr.timeout
    decoder,    \* Solr.decoder
    results_cls, \* Solr.results_cls
    calls       \* the operations running concurrently on the one client

vars == <<url, pc, op, sent, fetched, outcome, scrIn, scrOut, pyVal, wire, back,
          toPyIn, toPyOut, buildIn, doc_elem, sanIn, sanOut, joinPath, full_url,
          termsIn, termsOut, timeout, decoder, results_cls, calls>>

sendVars == <<url, pc, op, sent, fetched, outcome>>
scrapeVars == <<scrIn, scrOut>>
codecVars == <<pyVal, wire, back>>
toPyVars == <<toPyIn, toPyOut>>

\* the variables of the operations looked at one by one
docVars == <<buildIn, doc_elem>>
sanVars == <<sanIn, sanOut>>
joinVars == <<joinPath, full_url>>
termVars == <<termsIn, termsOut>>
concVars == <<timeout, decoder, results_cls, calls>>
extVars == <<toPyVars, docVars, sanVars, joinVars, termVars, concVars>>

----------------------------------------------------------------------------
(* Bounds of the model.                                                    *)

\* the longest response body, in fragments, given to the scraper
MaxFrags == 3
\* integers given to the codec range over -MaxInt..MaxInt
MaxInt == 12

----------------------------------------------------------------------------
(* Text helpers: Python's str operations on sequences of characters.       *)

\* Python's None, and a node that find() did not find; neither is a text.
NoneT == <<"<None>">>
Absent == <<"<absent>">>

\* str.isspace() of one character: what strip() and the regex class \s take
IsSpace(c) == c \in {" ", "\t", "\n", "\r"}

\* str.lower() of one character, for the letters that occur in the model
LowerCh(c) ==
    CASE c = "C" -> "c" [] c = "O" -> "o" [] c = "Y" -> "y" [] c = "T" -> "t"
      [] c = "E" -> "e" [] c = "J" -> "j" [] c = "H" -> "h" [] c = "N" -> "n"
      [] c = "F" -> "f" [] c = "P" -> "p" [] c = "G" -> "g" [] c = "S" -> "s"
      [] c = "R" -> "r" [] c = "B" -> "b" [] OTHER -> c

\* str.upper() of one character, for the letters of the method names
UpperCh(c) ==
    CASE c = "g" -> "G" [] c = "e" -> "E" [] c = "t" -> "T" [] c = "p" -> "P"
      [] c = "o" -> "O" [] c = "s" -> "S" [] c = "f" -> "F" [] c = "r" -> "R"
      [] c = "b" -> "B" [] OTHER -> c

Lower(s) == [i \in 1..Len(s) |-> LowerCh(s[i])]
Upper(s) == [i \in 1..Len(s) |-> UpperCh(s[i])]

\* s.startswith(p)
StartsWith(s, p) == Len(p) <= Len(s) /\ SubSeq(s, 1, Len(p)) = p

\* p in s
Contains(s, p) ==
    \E i \in 1..(Len(s) - Len(p) + 1) : SubSeq(s, i, i + Len(p) - 1) = p

\* s.replace(old, ''): one pass from the left over non-overlapping occurrences
RECURSIVE Remove(_, _)
Remove(s, old) ==
    LET found == { i \in 1..(Len(s) - Len(old) + 1) : SubSeq(s, i, i + Len(old) - 1) = old }
    IN  IF found = {} THEN s
        ELSE LET first == CHOOSE i \in found : \A j \in found : i <= j
             IN  SubSeq(s, 1, first - 1) \o Remove(SubSeq(s, first + Len(old), Len(s)), old)

\* s.lstrip(), s.rstrip(), s.strip()
RECURSIVE LStrip(_)
LStrip(s) == IF s # <<>> /\ IsSpace(Head(s)) THEN LStrip(Tail(s)) ELSE s
RECURSIVE RStrip(_)
RStrip(s) ==
    IF s # <<>> /\ IsSpace(s[Len(s)]) THEN RStrip(SubSeq(s, 1, Len(s) - 1)) ELSE s
Strip(s) == RStrip(LStrip(s))

\* s.rstrip('/') and s.lstrip('/')
RECURSIVE RStripSlash(_)
RStripSlash(s) ==
    IF s # <<>> /\ s[Len(s)] = "/" THEN RStripSlash(SubSeq(s, 1, Len(s) - 1)) ELSE s
RECURSIVE LStripSlash(_)
LStripSlash(s) == IF s # <<>> /\ Head(s) = "/" THEN LStripSlash(Tail(s)) ELSE s

\* Python truthiness of an optional text: None and '' are false
Truthy(t) == t # NoneT /\ t # <<>>

\* digits and the text of a number
Digits == <<"0", "1", "2", "3", "4", "5", "6", "7", "8", "9">>
IsDigit(c) == \E d \in 1..10 : Digits[d] = c
DigitVal(c) == (CHOOSE d \in 1..10 : Digits[d] = c) - 1

\* str(n) for n >= 0
RECURSIVE NatToText(_)
NatToText(n) ==
    IF n < 10 THEN <<Digits[n + 1]>>
    ELSE NatToText(n \div 10) \o <<Digits[(n % 10) + 1]>>

\* "{0}".format(n) of an integer
IntToText(n) == IF n < 0 THEN <<"-">> \o NatToText(-n) ELSE NatToText(n)

\* a dict is the sequence of its items in insertion order; an optional
\* dict is None or a dict
NoDict == [none |-> TRUE, items |-> <<>>]
Dict(items) == [none |-> FALSE, items |-> items]

\* key in d, and d[key]
HasKey(d, key) == \E i \in 1..Len(d.items) : d.items[i].key = key
Lookup(d, key) == d.items[CHOOSE i \in 1..Len(d.items) : d.items[i].key = key].value

\* Python truthiness of an optional dict: None and {} are false
TruthyDict(d) == ~d.none /\ d.items # <<>>

----------------------------------------------------------------------------
(* Response bodies: a body is a sequence of fragments; the code sees only  *)
(* the characters.                                                         *)

FragNames == {"H404", "HNF", "brOpen", "close", "br", "crlf", "sp", "x"}

\* the fragments that are a complete <h1> heading
HeadingFrags == {"H404", "HNF"}

FragText(f) ==
    CASE f = "H404"   -> <<"<","h","1",">","4","0","4","<","/","h","1",">">>
      [] f = "HNF"    -> <<"<","H","1"," ","a",">"," ","N","F"," ","<","/","h","1",">">>
      [] f = "brOpen" -> <<"<","b","r">>
      [] f = "close"  -> <<"/",">">>
      [] f = "br"     -> <<"<","b","r","/",">">>
      [] f = "crlf"   -> <<"\r","\n">>
      [] f = "sp"     -> <<" ">>
      [] f = "x"      -> <<"x">>

\* the text between the tags of a heading fragment, without the blanks around it
HeadingText(f) ==
    CASE f = "H404" -> <<"4","0","4">>
      [] f = "HNF"  -> <<"N","F">>

RECURSIVE Flatten(_)
Flatten(items) ==
    IF items = <<>> THEN <<>> ELSE FragText(Head(items)) \o Flatten(Tail(items))

\* the sequences of at most n fragments
RECURSIVE FragSeqs(_)
FragSeqs(n) ==
    IF n = 0 THEN {<<>>}
    ELSE LET shorter == FragSeqs(n - 1)
         IN  shorter \cup {Append(s, f) : s \in shorter, f \in FragNames}

XmlDeclaration == <<"<","?","x","m","l","?",">">>

\* the value of the response's server header; NoneT when the header is absent
ServerStrings ==
    { NoneT,
      <<"J","e","t","t","y">>,
      <<"a","-","C","o","y","o","t","e","/","1">>,
      <<"C","O","Y","O","T","E">>,
      <<"n","g","x">> }

----------------------------------------------------------------------------
(* re.search(r'<(h1)[^>]*>\s*(.+?)\s*</\1>', response, re.IGNORECASE)      *)

NoMatch == <<"<no match>">>

\* '</h1>' (the back-reference \1, any letter case) at position j
CloseTagAt(s, j) ==
    /\ j + 4 <= Len(s)
    /\ s[j] = "<" /\ s[j + 1] = "/" /\ LowerCh(s[j + 2]) = "h"
    /\ s[j + 3] = "1" /\ s[j + 4] = ">"

\* '\s*</\1>' matches right after position e
TailMatches(s, e) ==
    \E j \in (e + 1)..Len(s) :
        CloseTagAt(s, j) /\ \A t \in (e + 1)..(j - 1) : IsSpace(s[t])

\* '(.+?)' can be the n characters from b ('.' takes anything but a newline)
GroupMatches(s, b, n) ==
    /\ \A t \in b..(b + n - 1) : s[t] # "\n"
    /\ TailMatches(s, b + n - 1)

\* '\s*' takes k characters after the opening tag that ends at p
BlanksMatch(s, p, k) ==
    /\ p + k < Len(s)
    /\ \A t \in (p + 1)..(p + k) : IsSpace(s[t])
    /\ \E n \in 1..(Len(s) - p - k) : GroupMatches(s, p + 1 + k, n)

\* '<(h1)[^>]*>' starts at i: the place of the '>' that closes it, 0 if none
OpenTagEnd(s, i) ==
    IF /\ i + 2 <= Len(s)
       /\ s[i] = "<" /\ LowerCh(s[i + 1]) = "h" /\ s[i + 2] = "1"
       /\ \E p \in (i + 3)..Len(s) : s[p] = ">"
    THEN CHOOSE p \in (i + 3)..Len(s) :
            s[p] = ">" /\ \A t \in (i + 3)..(p - 1) : s[t] # ">"
    ELSE 0

\* the whole pattern matches with its first character at i
MatchesAt(s, i) ==
    LET p == OpenTagEnd(s, i)
    IN  p # 0 /\ \E k \in 0..(Len(s) - p) : BlanksMatch(s, p, k)

\* m.group(2) of the match at i: '\s*' is greedy, '.+?' is lazy
GroupAt(s, i) ==
    LET p == OpenTagEnd(s, i)
        k == CHOOSE k \in 0..(Len(s) - p) :
                /\ BlanksMatch(s, p, k)
                /\ \A k2 \in (k + 1)..(Len(s) - p) : ~BlanksMatch(s, p, k2)
        b == p + 1 + k
        n == CHOOSE n \in 1..(Len(s) - p - k) :
                /\ GroupMatches(s, b, n)
                /\ \A n2 \in 1..(n - 1) : ~GroupMatches(s, b, n2)
    IN  SubSeq(s, b, b + n - 1)

\* a mutant of ReSearchH1: the last match instead of the first
ReSearchH1_last(s) ==
    IF \E i \in 1..Len(s) : MatchesAt(s, i)
    THEN GroupAt(s, CHOOSE i \in 1..Len(s) :
                        MatchesAt(s, i) /\ \A j \in (i + 1)..Len(s) : ~MatchesAt(s, j))
    ELSE NoMatch

\* re.search: group(2) of the leftmost match, NoMatch when there is none
ReSearchH1(s) ==
    IF \E i \in 1..Len(s) : MatchesAt(s, i)
    THEN GroupAt(s, CHOOSE i \in 1..Len(s) :
                        MatchesAt(s, i) /\ \A j \in 1..(i - 1) : ~MatchesAt(s, j))
    ELSE NoMatch

----------------------------------------------------------------------------
(* Solr._scrape_response.  ET.fromstring is the standard library's; what   *)
(* it makes of a body is an input: tree.ok is FALSE when it raises         *)
(* ParseError, and otherwise tree.msg, tree.trace, tree.pre and tree.title *)
(* are the .text of the nodes found by find() (Absent: no such node,       *)
(* NoneT: a node without text) and tree.ser is ET.tostring of the tree.    *)

ParseFailed ==
    [ok |-> FALSE, msg |-> Absent, trace |-> Absent, pre |-> Absent,
     title |-> Absent, ser |-> <<>>]

\* headers.get('server', '')
HeadersGetServer(headers) == IF headers.server = NoneT THEN <<>> ELSE headers.server

Returned(reason, full_html) ==
    [reason |-> reason, full_html |-> full_html, kind |-> "return"]
Raised(exc) == [kind |-> "raise", exc |-> exc]

\* lines 508-515: which container answered
ServerType(headers) ==
    LET server_string == HeadersGetServer(headers)
        jetty  == server_string # <<>> /\ Contains(Lower(server_string), <<"j","e","t","t","y">>)
        coyote == server_string # <<>> /\ Contains(Lower(server_string), <<"c","o","y","o","t","e">>)
    IN  IF coyote THEN "tomcat" ELSE IF jetty THEN "jetty" ELSE "None"

\* a mutant of StrictStep: the trace node is not looked at
StrictStep_ignoresTrace(response, tree) ==
    IF ~StartsWith(response, <<"<","?","x","m","l">>) \/ ~tree.ok
    THEN [reason |-> NoneT, full_html |-> <<>>, kind |-> "pass"]
    ELSE IF tree.msg = NoneT
    THEN Raised("AttributeError")
    ELSE LET reason1 == IF tree.msg # Absent THEN Strip(tree.msg) ELSE NoneT
             full1   == IF tree.msg # Absent THEN Strip(tree.msg) ELSE <<>>
         IN  IF Truthy(reason1) /\ Truthy(full1)
             THEN Returned(reason1, full1)
             ELSE [reason |-> reason1, full_html |-> full1, kind |-> "pass"]

\* lines 524-543: the strict parse of a body that starts with '<?xml'.
\* kind "return": the early return; "raise": .strip() of a None text;
\* "pass": go on with the reason and full_html found so far.
StrictStep(response, tree) ==
    IF ~StartsWith(response, <<"<","?","x","m","l">>) \/ ~tree.ok
    THEN [reason |-> NoneT, full_html |-> <<>>, kind |-> "pass"]
    ELSE IF tree.msg = NoneT \/ tree.trace = NoneT
    THEN Raised("AttributeError")
    ELSE LET reason1 == IF tree.msg # Absent THEN Strip(tree.msg) ELSE NoneT
             full1   == IF tree.msg # Absent THEN Strip(tree.msg) ELSE <<>>
             full2   == IF tree.trace # Absent THEN Strip(tree.trace) ELSE full1
             reason2 == IF tree.trace # Absent /\ reason1 = NoneT THEN full2 ELSE reason1
         IN  IF Truthy(reason2) /\ Truthy(full2)
             THEN Returned(reason2, full2)
             ELSE [reason |-> reason2, full_html |-> full2, kind |-> "pass"]

\* a mutant of ReasonNode: the two containers' nodes exchanged
ReasonNode_swapped(server_type, tree) ==
    IF server_type = "jetty" THEN tree.title ELSE tree.pre

\* lines 559-562: the node that holds the reason, by container
ReasonNode(server_type, tree) ==
    IF server_type = "jetty" THEN tree.pre ELSE tree.title

\* lines 545-570: the container-specific steps, from the reason and
\* full_html the strict step left
ContainerStep(server_type, response, tree, reason0, full0) ==
    IF server_type = "tomcat"
    THEN LET m == ReSearchH1(response)
         IN  IF m # NoMatch
             THEN [reason |-> m, full_html |-> full0]
             ELSE [reason |-> reason0, full_html |-> response]
    ELSE IF ~tree.ok
    THEN [reason |-> reason0, full_html |-> response]
    ELSE LET reason_node == ReasonNode(server_type, tree)
             reason == IF reason_node # Absent THEN reason_node ELSE reason0
         IN  [reason |-> reason,
              full_html |-> IF reason = NoneT THEN tree.ser ELSE full0]

\* lines 572-577: the replace calls and the strip on full_html
Normalise(full_html) ==
    Strip(Remove(Remove(Remove(Remove(full_html, <<"\n">>), <<"\r">>),
                        <<"<","b","r","/",">">>),
                 <<"<","b","r"," ","/",">">>))

_scrape_response(headers, response, tree) ==
    LET server_type == ServerType(headers)
        strict == StrictStep(response, tree)
    IN  IF strict.kind # "pass"
        THEN strict
        ELSE LET c == ContainerStep(server_type, response, tree,
                                    strict.reason, strict.full_html)
             IN  Returned(c.reason, Normalise(c.full_html))

----------------------------------------------------------------------------
(* The scraper on its own: one call of _scrape_response at a time.         *)

\* what ET.fromstring needs at the least: a body that is one element
CanParse(response) ==
    LET t == Strip(response)
    IN  t # <<>> /\ Head(t) = "<" /\ t[Len(t)] = ">"

\* ET.tostring writes an element without content as '<a />'
SerEmptyElement == <<"<","a"," ","/",">">>

MsgTexts == { Absent, NoneT, <<" ">>, <<"b","o","o","m">>, <<" ","b","o","o","m","\n">> }
TraceTexts == { Absent, NoneT, <<" ">>, <<"t","r">> }
PreTexts == { Absent, NoneT, <<"P","r","o","b">> }
TitleTexts == { Absent, <<"E","r","r">> }

\* the parses of an error page: no Solr error list in it
HtmlTrees(response) ==
    {ParseFailed} \cup
    IF CanParse(response)
    THEN [ok : {TRUE}, msg : {Absent}, trace : {Absent}, pre : PreTexts,
          title : TitleTexts, ser : {response, SerEmptyElement}]
    ELSE {}

\* the parses of a Solr XML response: an error list, and no body/pre
XmlTrees(response) ==
    {ParseFailed} \cup
    [ok : {TRUE}, msg : MsgTexts, trace : TraceTexts, pre : {Absent},
     title : TitleTexts, ser : {response, SerEmptyElement}]

ScrapeIdle == [kind |-> "idle"]
NoScrapeInput ==
    [items |-> <<>>, headers |-> [server |-> NoneT], response |-> <<>>,
     tree |-> ParseFailed, decl |-> FALSE]

InitScrape ==
    /\ scrIn = NoScrapeInput
    /\ scrOut = ScrapeIdle

\* _scrape_response on an HTML (or plain) body
ScrapeHtml ==
    /\ scrOut = ScrapeIdle
    /\ \E server \in ServerStrings, items \in FragSeqs(MaxFrags) :
         \E tree \in HtmlTrees(Flatten(items)) :
            /\ scrIn' = [items |-> items, headers |-> [server |-> server],
                         response |-> Flatten(items), tree |-> tree, decl |-> FALSE]
            /\ scrOut' = _scrape_response([server |-> server], Flatten(items), tree)
    /\ UNCHANGED <<sendVars, codecVars, extVars>>

\* a str node of Solr's error list as it stands in the body
StrNode(name, text) ==
    IF text = Absent THEN <<>>
    ELSE IF text = NoneT THEN << "<str name=\"" \o name \o "\"/>" >>
    ELSE << "<str name=\"" \o name \o "\">" >> \o text \o << "</str>" >>

\* a body that starts with an XML declaration: when it parses, it holds the
\* nodes the parse finds; the fragments stand after the error list
XmlBody(tree, items) ==
    XmlDeclaration
        \o (IF tree.ok
            THEN << "<response>", "<lst name=\"error\">" >>
                    \o StrNode("msg", tree.msg) \o StrNode("trace", tree.trace)
                    \o << "</lst>" >> \o Flatten(items) \o << "</response>" >>
            ELSE << "<response>" >> \o Flatten(items))

\* _scrape_response on a body that starts with an XML declaration
ScrapeXml ==
    /\ scrOut = ScrapeIdle
    /\ \E server \in ServerStrings, items \in FragSeqs(MaxFrags - 2) :
         \E t \in XmlTrees(<<>>) :
            LET response == XmlBody(t, items)
                tree == IF t.ok /\ t.ser = <<>> THEN [t EXCEPT !.ser = response] ELSE t
            IN  /\ scrIn' = [items |-> items, headers |-> [server |-> server],
                             response |-> response, tree |-> tree, decl |-> TRUE]
                /\ scrOut' = _scrape_response([server |-> server], response, tree)
    /\ UNCHANGED <<sendVars, codecVars, extVars>>

\* the caller has the pair (or the exception); the next call may start
ScrapeDone ==
    /\ scrOut # ScrapeIdle
    /\ scrIn' = NoScrapeInput
    /\ scrOut' = ScrapeIdle
    /\ UNCHANGED <<sendVars, codecVars, extVars>>

----------------------------------------------------------------------------
(* The request dispatcher.                                                 *)

\* Solr._FETCH_*_ERROR: the text before and after the '{}' of each message
_FETCH_VALUE_ERROR   == [pre |-> <<"URL is empty or protocol missing: ">>, post |-> <<>>]
_FETCH_UNICODE_ERROR == [pre |-> <<"URL is too long: ">>, post |-> <<>>]
_FETCH_SOCKET_ERROR  == [pre |-> <<"Socket error (DNS?) connecting to ">>, post |-> <<>>]
_FETCH_KEY_ERROR     == [pre |-> <<"Unknown HTTP method \"">>, post |-> <<"\"">>]
_FETCH_CONN_ERROR    == [pre |-> <<"Connection error with ">>, post |-> <<>>]

\* template.format(arg)
Format(template, arg) == template.pre \o arg \o template.post

\* the base URLs a client is constructed with
BaseUrls == { <<"h",":","/","/","s">>, <<"h",":","/","/","s","/">> }

\* a mutant of _create_full_url: the slashes at the join are not stripped
_create_full_url_noStrip(self_url, path) ==
    IF Len(path) # 0
    THEN self_url \o <<"/">> \o path
    ELSE self_url

\* Solr._create_full_url
_create_full_url(self_url, path) ==
    IF Len(path) # 0
    THEN RStripSlash(self_url) \o <<"/">> \o LStripSlash(path)
    ELSE self_url

\* Python's exception classes: the classes an instance of cls is an instance of
Ancestors(cls) ==
    CASE cls = "UnicodeError" -> {"UnicodeError", "ValueError", "Exception"}
      [] cls = "ValueError" -> {"ValueError", "Exception"}
      [] cls = "gaierror" -> {"gaierror", "OSError", "Exception"}
      [] cls = "KeyError" -> {"KeyError", "LookupError", "Exception"}
      [] cls = "ConnectionRefusedError" ->
            {"ConnectionRefusedError", "ConnectionError", "OSError", "Exception"}
      [] cls = "HTTPError" -> {"HTTPError", "Exception"}
      [] OTHER -> {cls, "Exception"}

\* a mutant of ExceptClauses: ValueError tried before its subclass UnicodeError
ExceptClauses_valueFirst ==
    <<"ValueError", "UnicodeError", "gaierror", "KeyError", "ConnectionError", "HTTPError">>

\* the except clauses of _send_request, in the order they are written
ExceptClauses ==
    <<"UnicodeError", "ValueError", "gaierror", "KeyError", "ConnectionError", "HTTPError">>

\* force_bytes(value) of a text: value.encode('utf-8', 'backslashreplace').
\* A character of the ASCII range is one byte, written as the character;
\* 'é' is two bytes; a lone surrogate cannot be encoded and is replaced by
\* the six characters of its escape
\* (computed by halves, which keeps the evaluation of a long text shallow)
EncodeCh(c) ==
    CASE c = "\\ud800" -> <<"\\", "u", "d", "8", "0", "0">>
      [] c = "é" -> <<"\\xc3", "\\xa9">>
      [] OTHER -> <<c>>

RECURSIVE force_bytes(_)
force_bytes(value) ==
    IF value = <<>> THEN <<>>
    ELSE IF Len(value) = 1 THEN EncodeCh(value[1])
    ELSE LET half == Len(value) \div 2
         IN  force_bytes(SubSeq(value, 1, half))
                 \o force_bytes(SubSeq(value, half + 1, Len(value)))

\* the character decoded at byte i: the two bytes of 'é' give it at the
\* first and nothing at the second; either byte without the other is replaced
DecodeAt(value, i) ==
    IF value[i] = "\\xc3"
    THEN IF i < Len(value) /\ value[i + 1] = "\\xa9" THEN <<"é">> ELSE <<"\\ufffd">>
    ELSE IF value[i] = "\\xa9"
    THEN IF i > 1 /\ value[i - 1] = "\\xc3" THEN <<>> ELSE <<"\\ufffd">>
    ELSE <<value[i]>>

\* the characters decoded at bytes lo..hi, by halves
RECURSIVE DecodeRange(_, _, _)
DecodeRange(value, lo, hi) ==
    IF lo > hi THEN <<>>
    ELSE IF lo = hi THEN DecodeAt(value, lo)
    ELSE LET mid == (lo + hi) \div 2
         IN  DecodeRange(value, lo, mid) \o DecodeRange(value, mid + 1, hi)

\* force_unicode(value) of bytes: value.decode('utf-8', errors='replace')
DecodeUtf8(value) == DecodeRange(value, 1, Len(value))

\* the clause that catches an exception of class cls: the first that fits
CatchingClause(cls) ==
    IF \E i \in 1..Len(ExceptClauses) : ExceptClauses[i] \in Ancestors(cls)
    THEN ExceptClauses[CHOOSE i \in 1..Len(ExceptClauses) :
            /\ ExceptClauses[i] \in Ancestors(cls)
            /\ \A j \in 1..(i - 1) : ExceptClauses[j] \notin Ancestors(cls)]
    ELSE "none"

ReturnedText(text) == [kind |-> "return", text |-> text]
RaisedError(cls, msg) == [msg |-> msg, kind |-> "raise", cls |-> cls]

\* lines 392-423 of _send_request: what the call makes of what fetch delivered
HandleFetch(request, delivered) ==
    IF delivered.kind = "response"
    THEN ReturnedText(DecodeUtf8(delivered.body))
    ELSE LET clause == CatchingClause(delivered.cls)
         IN  CASE clause = "UnicodeError" ->
                    RaisedError("SolrError", Format(_FETCH_UNICODE_ERROR, request.url))
               [] clause = "ValueError" ->
                    RaisedError("SolrError", Format(_FETCH_VALUE_ERROR, request.url))
               [] clause = "gaierror" ->
                    RaisedError("SolrError", Format(_FETCH_SOCKET_ERROR, request.url))
               [] clause = "KeyError" ->
                    RaisedError("SolrError", Format(_FETCH_KEY_ERROR, request.method))
               [] clause = "ConnectionError" ->
                    RaisedError("SolrError", Format(_FETCH_CONN_ERROR, request.url))
               [] clause = "HTTPError" ->
                    IF ~delivered.response.present
                    THEN \* the_error.response is None: .reason fails
                         RaisedError("AttributeError", <<>>)
                    ELSE RaisedError("SolrError",
                            delivered.code \o <<":", " ">> \o delivered.response.reason)
               [] OTHER -> RaisedError(delivered.cls, <<>>)

\* lines 362-390 of _send_request: the request handed to fetch
BuildRequest(self_url, method, path, body, headers) ==
    [url |-> _create_full_url(self_url, path), headers |-> headers,
     body |-> IF body = NoneT THEN NoneT ELSE force_bytes(body), method |-> Upper(method)]

\* the method names fetch knows
KnownMethods == { <<"G","E","T">>, <<"P","O","S","T">> }

\* the_error.response is None: the transport had no HTTP response at all
NoResponse ==
    [items |-> <<>>, headers |-> [server |-> NoneT], reason |-> NoneT, present |-> FALSE]

\* the error responses of a server: reason phrase, server header and body
ErrorResponses ==
    { [items |-> <<"x", "HNF", "H404">>,
       headers |-> [server |-> <<"a","-","C","o","y","o","t","e","/","1">>],
       reason |-> <<"E","r","r">>, present |-> TRUE],
      [items |-> <<"x", "crlf", "x">>,
       headers |-> [server |-> <<"n","g","x">>],
       reason |-> <<"E","r","r">>, present |-> TRUE],
      [items |-> <<"HNF">>,
       headers |-> [server |-> <<"a","-","C","o","y","o","t","e","/","1">>],
       reason |-> <<"N","F">>, present |-> TRUE] }

Delivery(kind, cls, code, body, response) ==
    [kind |-> kind, response |-> response, cls |-> cls, body |-> body, code |-> code]

NoDelivery == Delivery("none", "none", <<>>, <<>>, NoResponse)

\* a response of the terms handler, in the older flat shape
TermsBody == << "{\"terms\":[\"f\",[\"a\",1]]}" >>

\* what fetch can deliver for a request: a response, or one of the failures
\* of the transport (a per-request timeout is HTTPError 599 without response)
Deliveries(request) ==
    IF request.method \notin KnownMethods
    THEN { Delivery("exception", "KeyError", <<>>, <<>>, NoResponse) }
    ELSE { Delivery("response", "none", <<"2","0","0">>, b, NoResponse) :
              b \in { <<>>, <<"{","}">>, TermsBody } }
         \cup { Delivery("exception", c, <<>>, <<>>, NoResponse) :
              c \in {"UnicodeError", "ValueError", "gaierror", "ConnectionRefusedError"} }
         \cup { Delivery("exception", "HTTPError", c, Flatten(r.items), r) :
              c \in { <<"4","0","4">>, <<"5","0","0">> }, r \in ErrorResponses }
         \cup { Delivery("exception", "HTTPError", <<"5","9","9">>, <<>>, NoResponse) }

----------------------------------------------------------------------------
(* The update path: sanitize, _update and delete.                          *)

\* REPLACEMENTS: the control characters, each written by its escape
REPLACEMENTS ==
    << "\\x00", "\\x01", "\\x02", "\\x03", "\\x04", "\\x05", "\\x06", "\\x07",
       "\\x08", "\\x0b", "\\x0c", "\\x0e", "\\x0f", "\\x10", "\\x11", "\\x12",
       "\\x13", "\\x14", "\\x15", "\\x16", "\\x17", "\\x18", "\\x19", "\\x1a",
       "\\x1b", "\\x1c", "\\x1d", "\\x1e", "\\x1f" >>

\* the loop of sanitize after its first n replacements: each replaces one
\* byte by nothing, so the bytes left are those that are none of the n
SanitizeFrom(fixed_string, n) ==
    SelectSeq(fixed_string, LAMBDA b : \A i \in 1..n : b # REPLACEMENTS[i])

sanitize(data) == DecodeUtf8(SanitizeFrom(force_bytes(data), Len(REPLACEMENTS)))

\* str(bool(v)).lower() of an argument that is None, True or False
BoolLower(v) == IF v = "True" THEN "true" ELSE "false"

\* '&'.join(query_vars)
RECURSIVE JoinAmp(_)
JoinAmp(query_vars) ==
    IF query_vars = <<>> THEN <<>>
    ELSE IF Len(query_vars) = 1 THEN Head(query_vars)
    ELSE Head(query_vars) \o <<"&">> \o JoinAmp(Tail(query_vars))

ContentTypeXml == "text/xml; charset=utf-8"

\* Solr._update: the arguments it gives to _send_request
_update(message, clean_ctrl_chars, commit, softCommit, waitFlush, waitSearcher) ==
    LET q1 == IF commit # "None" THEN << <<"commit=", BoolLower(commit)>> >>
              ELSE IF softCommit # "None"
                   THEN << <<"softCommit=", BoolLower(softCommit)>> >>
                   ELSE <<>>
        q2 == IF waitFlush # "None"
              THEN Append(q1, <<"waitFlush=", BoolLower(waitFlush)>>) ELSE q1
        query_vars == IF waitSearcher # "None"
              THEN Append(q2, <<"waitSearcher=", BoolLower(waitSearcher)>>) ELSE q2
        base == <<"u","p","d","a","t","e","/">>
    IN  [headers |-> ContentTypeXml,
         path |-> IF query_vars # <<>> THEN base \o <<"?">> \o JoinAmp(query_vars)
                  ELSE base,
         body |-> IF clean_ctrl_chars THEN sanitize(message) ELSE message,
         method |-> <<"p","o","s","t">>]

\* a mutant of DeleteMessage: the check for both arguments left out
DeleteMessage_noBothCheck(id, q) ==
    IF id = NoneT /\ q = NoneT
    THEN [ok |-> FALSE, m |-> <<>>]
    ELSE IF id # NoneT
    THEN [ok |-> TRUE, m |-> <<"<delete><id>">> \o id \o <<"</id></delete>">>]
    ELSE [ok |-> TRUE, m |-> <<"<delete><query>">> \o q \o <<"</query></delete>">>]

\* lines 910-917 of delete: the ValueError, or the message m
DeleteMessage(id, q) ==
    IF id = NoneT /\ q = NoneT
    THEN [ok |-> FALSE, m |-> <<>>]
    ELSE IF id # NoneT /\ q # NoneT
    THEN [ok |-> FALSE, m |-> <<>>]
    ELSE IF id # NoneT
    THEN [ok |-> TRUE, m |-> <<"<delete><id>">> \o id \o <<"</id></delete>">>]
    ELSE [ok |-> TRUE, m |-> <<"<delete><query>">> \o q \o <<"</query></delete>">>]

----------------------------------------------------------------------------
(* The query path: urlencode, _select and search.                          *)

\* line 431: the length from which the encoded parameters go into a POST
LongQueryLength == 1024

\* quote_plus of one character: letters, digits and '_.-~' stay, a blank
\* becomes '+', any other character its percent escape
QuoteCh(c) ==
    CASE c = " " -> <<"+">>
      [] c = "*" -> <<"%","2","A">>
      [] c = ":" -> <<"%","3","A">>
      [] c = "&" -> <<"%","2","6">>
      [] c = "=" -> <<"%","3","D">>
      [] c = "/" -> <<"%","2","F">>
      [] c = "?" -> <<"%","3","F">>
      [] c = "<" -> <<"%","3","C">>
      [] c = "+" -> <<"%","2","B">>
      [] c = "%" -> <<"%","2","5">>
      [] OTHER -> <<c>>

\* quote_plus(text): the escapes of the characters, one after the other
\* (computed by halves, which keeps the evaluation of a long text shallow)
RECURSIVE quote_plus(_)
quote_plus(text) ==
    IF text = <<>> THEN <<>>
    ELSE IF Len(text) = 1 THEN QuoteCh(text[1])
    ELSE LET half == Len(text) \div 2
         IN  quote_plus(SubSeq(text, 1, half))
                 \o quote_plus(SubSeq(text, half + 1, Len(text)))

\* str(v) of a parameter value
ParamText(v) == IF v.t = "int" THEN IntToText(v.v) ELSE v.v

\* the key=value pairs of one parameter: one per element for a list
RECURSIVE QueryPairs(_, _)
QueryPairs(key, values) ==
    IF values = <<>> THEN <<>>
    ELSE << quote_plus(key) \o <<"=">> \o quote_plus(ParamText(Head(values))) >>
            \o QueryPairs(key, Tail(values))

RECURSIVE AllQueryPairs(_)
AllQueryPairs(items) ==
    IF items = <<>> THEN <<>>
    ELSE QueryPairs(Head(items).key,
                    IF Head(items).value.t = "list" THEN Head(items).value.v
                    ELSE <<Head(items).value>>)
            \o AllQueryPairs(Tail(items))

\* safe_urlencode(params, True)
safe_urlencode(params) == JoinAmp(AllQueryPairs(params.items))

\* params[key] = value: in place when the key is there, else at the end
SetItem(d, key, value) ==
    IF HasKey(d, key)
    THEN Dict([i \in 1..Len(d.items) |->
                 IF d.items[i].key = key THEN [key |-> key, value |-> value]
                 ELSE d.items[i]])
    ELSE Dict(Append(d.items, [key |-> key, value |-> value]))

\* params.update(kwargs)
RECURSIVE Update(_, _)
Update(d, items) ==
    IF items = <<>> THEN d
    ELSE Update(SetItem(d, Head(items).key, Head(items).value), Tail(items))

WtJson == [t |-> "str", v |-> <<"j","s","o","n">>]

ContentTypeForm == "application/x-www-form-urlencoded; charset=utf-8"

\* a mutant of _select: the boundary length still goes into a GET
_select_boundaryGet(params) ==
    LET params_encoded == safe_urlencode(SetItem(params, <<"w","t">>, WtJson))
    IN  IF Len(params_encoded) <= LongQueryLength
        THEN [headers |-> "None",
              path |-> <<"s","e","l","e","c","t","/","?">> \o params_encoded,
              body |-> NoneT, method |-> <<"g","e","t">>]
        ELSE [headers |-> ContentTypeForm,
              path |-> <<"s","e","l","e","c","t","/">>,
              body |-> params_encoded, method |-> <<"p","o","s","t">>]

\* Solr._select: the arguments it gives to _send_request
_select(params) ==
    LET params_encoded == safe_urlencode(SetItem(params, <<"w","t">>, WtJson))
    IN  IF Len(params_encoded) < LongQueryLength
        THEN [headers |-> "None",
              path |-> <<"s","e","l","e","c","t","/","?">> \o params_encoded,
              body |-> NoneT, method |-> <<"g","e","t">>]
        ELSE [headers |-> ContentTypeForm,
              path |-> <<"s","e","l","e","c","t","/">>,
              body |-> params_encoded, method |-> <<"p","o","s","t">>]

\* lines 717-719 of search: the parameters given to _select
SearchParams(q, kwargs) ==
    Update(Dict(<< [key |-> <<"q">>, value |-> [t |-> "str", v |-> q]] >>), kwargs.items)

\* the terms of a response: result.get("terms", {})
NoTermsKey == [v |-> <<>>, shape |-> "dict"]

\* decoder.decode(response) of json.JSONDecoder on the bodies of the model:
\* '{}' is an empty dict, the empty text is not JSON
JsonDecode(text) ==
    IF text = <<"{","}">> THEN [value |-> [terms |-> NoTermsKey], ok |-> TRUE]
    ELSE IF text = TermsBody
    THEN [value |-> [terms |-> [v |-> << [t |-> "str", v |-> <<"f">>],
                                         [t |-> "list", v |-> << [t |-> "str", v |-> <<"a">>],
                                                                 [t |-> "int", v |-> 1] >>] >>,
                                shape |-> "list"]],
          ok |-> TRUE]
    ELSE [value |-> [terms |-> NoTermsKey], ok |-> FALSE]

\* Results(decoded) of a decoded response without a 'response' part
Results(decoded) == [docs |-> <<>>, hits |-> 0]

\* lines 720-727 of search, 750-757 of more_like_this: the text that
\* _send_request returned is decoded and wrapped
WrapResults(sendOutcome) ==
    IF sendOutcome.kind # "return" THEN sendOutcome
    ELSE LET decoded == JsonDecode(sendOutcome.text)
         IN  IF decoded.ok
             THEN [kind |-> "return", results |-> Results(decoded.value)]
             ELSE RaisedError("JSONDecodeError", <<>>)

\* lines 769-773 of suggest_terms: the parameters given to _suggest_terms
SuggestParams(fields, prefix, kwargs) ==
    Update(Dict(<< [key |-> <<"t","e","r","m","s",".","f","l">>,
                    value |-> [t |-> "str", v |-> fields]],
                   [key |-> <<"t","e","r","m","s",".","p","r","e","f","i","x">>,
                    value |-> [t |-> "str", v |-> prefix]] >>), kwargs.items)

\* Solr._suggest_terms: the arguments it gives to _send_request
_suggest_terms(params) ==
    [headers |-> "None",
     path |-> <<"t","e","r","m","s","/","?">>
                 \o safe_urlencode(SetItem(params, <<"w","t">>, WtJson)),
     body |-> NoneT, method |-> <<"g","e","t">>]

\* zip(terms[0::2], terms[1::2]): the fields at the odd places with the
\* values after them; a field with nothing after it is dropped
ZipPairs(flat) ==
    [i \in 1..(Len(flat) \div 2) |-> [key |-> flat[2 * i - 1].v, value |-> flat[2 * i].v]]

\* line 785: dict(...) of the pairs
TermsDict(terms) ==
    IF terms.shape = "list" THEN Update(Dict(<<>>), ZipPairs(terms.v)) ELSE Dict(terms.v)

\* lines 790-791: the loop that pops two values at a time; the second pop
\* of a last single value raises IndexError
RECURSIVE PairUp(_)
PairUp(values) ==
    IF values = <<>> THEN [ok |-> TRUE, tmp |-> <<>>]
    ELSE IF Len(values) = 1 THEN [ok |-> FALSE, tmp |-> <<>>]
    ELSE LET rest == PairUp(SubSeq(values, 3, Len(values)))
         IN  [ok |-> rest.ok, tmp |-> << <<values[1], values[2]>> >> \o rest.tmp]

\* lines 787-793: the loop over the fields
RECURSIVE PairFields(_)
PairFields(items) ==
    IF items = <<>> THEN [items |-> <<>>, ok |-> TRUE]
    ELSE LET first == PairUp(Head(items).value)
             rest == PairFields(Tail(items))
         IN  IF ~first.ok THEN [items |-> <<>>, ok |-> FALSE]
             ELSE [items |-> << [key |-> Head(items).key, value |-> first.tmp] >> \o rest.items,
                   ok |-> rest.ok]

\* lines 776-796 of suggest_terms: the result made of the decoded response
NormaliseTerms(result) ==
    LET paired == PairFields(TermsDict(result.terms).items)
    IN  IF paired.ok THEN [kind |-> "return", res |-> Dict(paired.items)]
        ELSE RaisedError("IndexError", <<>>)

----------------------------------------------------------------------------
(* The client: one call at a time; a call is suspended while fetch runs.   *)

NoOutcome == [kind |-> "none"]
NoOp == [name |-> "none"]

Methods == { <<"g","e","t">>, <<"p","o","s","t">>, <<"f","r","o","b">> }
Paths == { <<>>, <<"/","s","e","l","e","c","t","/">>, <<"u","p","d","a","t","e","/">> }

Ids == { NoneT, <<>>, <<"7">>, <<"a","<","&">> }
Queries == { NoneT, <<"*",":","*">> }
PyBools == {"None", "True", "False"}

InitSend ==
    /\ url \in BaseUrls
    /\ pc = "idle"
    /\ op = NoOp
    /\ sent = <<>>
    /\ fetched = NoDelivery
    /\ outcome = NoOutcome

\* _send_request(method, path, body) up to the yield of fetch
CallSendRequest ==
    /\ pc = "idle"
    /\ \E method \in Methods, path \in Paths, body \in { NoneT, <<"b">> } :
         /\ op' = [name |-> "_send_request", path |-> path, body |-> body,
                   method |-> method, files |-> "None"]
         /\ sent' = <<BuildRequest(url, method, path, body, "None")>>
    /\ pc' = "fetching"
    /\ UNCHANGED <<url, fetched, outcome, scrapeVars, codecVars, extVars>>

\* _send_request with files: line 378 raises before any request is made
CallSendRequestFiles ==
    /\ pc = "idle"
    /\ \E method \in Methods, path \in Paths :
         op' = [name |-> "_send_request", path |-> path, body |-> NoneT,
                method |-> method, files |-> "file"]
    /\ outcome' = RaisedError("NotImplementedError", <<>>)
    /\ pc' = "done"
    /\ UNCHANGED <<url, sent, fetched, scrapeVars, codecVars, extVars>>

\* delete(id, q, commit, waitFlush, waitSearcher) up to the yield of fetch
CallDelete ==
    /\ pc = "idle"
    /\ \E id \in Ids, q \in Queries, commit \in PyBools,
          waitFlush \in {"None", "True"}, waitSearcher \in {"None", "False"} :
         LET d == DeleteMessage(id, q)
             u == _update(d.m, TRUE, commit, "False", waitFlush, waitSearcher)
         IN  /\ op' = [name |-> "delete", commit |-> commit, waitFlush |-> waitFlush,
                       waitSearcher |-> waitSearcher, id |-> id, q |-> q]
             /\ IF d.ok
                THEN /\ sent' = <<BuildRequest(url, u.method, u.path, u.body, u.headers)>>
                     /\ pc' = "fetching"
                     /\ outcome' = outcome
                ELSE /\ sent' = sent
                     /\ pc' = "done"
                     /\ outcome' = RaisedError("ValueError", <<>>)
    /\ UNCHANGED <<url, fetched, scrapeVars, codecVars, extVars>>

\* the rest of an operation after _send_request has returned or raised
Finish(o, sendOutcome) ==
    IF o.name \in {"search", "more_like_this"} THEN WrapResults(sendOutcome)
    ELSE IF o.name = "suggest_terms" /\ sendOutcome.kind = "return"
    THEN LET decoded == JsonDecode(sendOutcome.text)
         IN  IF decoded.ok THEN NormaliseTerms(decoded.value)
             ELSE RaisedError("JSONDecodeError", <<>>)
    ELSE sendOutcome

\* the queries of a search: short ones, and long ones whose encoded
\* parameters are one shorter than, as long as, and one longer than
\* LongQueryLength ('q=' and '&wt=json' are 10 characters)
Repeat(c, n) == [i \in 1..n |-> c]

SearchQueries ==
    { <<"*",":","*">>, <<"a"," ","b">>, Repeat("*", (LongQueryLength - 10) \div 3) }
        \cup { Repeat("a", LongQueryLength - 10 + d) : d \in {0 - 1, 0, 1} }

SearchKwargs ==
    { Dict(<<>>),
      Dict(<< [key |-> <<"w","t">>, value |-> [t |-> "str", v |-> <<"x","m","l">>]] >>),
      Dict(<< [key |-> <<"f","l">>,
               value |-> [t |-> "list", v |-> << [t |-> "str", v |-> <<"i","d">>],
                                                 [t |-> "int", v |-> 7] >>]] >>) }

\* search(q, **kwargs) up to the yield of fetch
CallSearch ==
    /\ pc = "idle"
    /\ \E q \in SearchQueries, kwargs \in SearchKwargs :
         LET a == _select(SearchParams(q, kwargs))
         IN  /\ op' = [name |-> "search", q |-> q, kwargs |-> kwargs]
             /\ sent' = <<BuildRequest(url, a.method, a.path, a.body, a.headers)>>
    /\ pc' = "fetching"
    /\ UNCHANGED <<url, fetched, outcome, scrapeVars, codecVars, extVars>>

\* suggest_terms(fields, prefix, **kwargs) up to the yield of fetch
CallSuggestTerms ==
    /\ pc = "idle"
    /\ \E fields \in { <<"f">>, <<"f",",","g">> }, prefix \in { <<>>, <<"a"," ">> },
          kwargs \in SearchKwargs :
         LET a == _suggest_terms(SuggestParams(fields, prefix, kwargs))
         IN  /\ op' = [name |-> "suggest_terms", kwargs |-> kwargs, fields |-> fields,
                       prefix |-> prefix]
             /\ sent' = <<BuildRequest(url, a.method, a.path, a.body, a.headers)>>
    /\ pc' = "fetching"
    /\ UNCHANGED <<url, fetched, outcome, scrapeVars, codecVars, extVars>>

\* fetch delivers, and the suspended _send_request and its caller run to
\* their end
FetchCompletes ==
    /\ pc = "fetching"
    /\ \E d \in Deliveries(sent[Len(sent)]) :
         /\ fetched' = d
         /\ outcome' = Finish(op, HandleFetch(sent[Len(sent)], d))
    /\ pc' = "done"
    /\ UNCHANGED <<url, op, sent, scrapeVars, codecVars, extVars>>

\* the caller has the result; the client is free for the next call
CallDone ==
    /\ pc = "done"
    /\ pc' = "idle"
    /\ op' = NoOp
    /\ sent' = <<>>
    /\ fetched' = NoDelivery
    /\ outcome' = NoOutcome
    /\ UNCHANGED <<url, scrapeVars, codecVars, extVars>>

----------------------------------------------------------------------------
(* The value codec.  A native value is a record tagged with its type.      *)

\* '%0wd' % n
RECURSIVE ZeroPad(_, _)
ZeroPad(t, w) == IF Len(t) >= w THEN t ELSE ZeroPad(<<"0">> \o t, w)
Pad(n, w) == ZeroPad(NatToText(n), w)

\* int(text) of a text of digits
RECURSIVE TextToNat(_)
TextToNat(t) ==
    IF t = <<>> THEN 0
    ELSE 10 * TextToNat(SubSeq(t, 1, Len(t) - 1)) + DigitVal(t[Len(t)])

\* date.isoformat()
DateIso(v) == Pad(v.year, 4) \o <<"-">> \o Pad(v.month, 2) \o <<"-">> \o Pad(v.day, 2)

\* datetime.isoformat(): the fraction only when microsecond is not 0, the
\* UTC offset only when the value has a time zone
DatetimeIso(v) ==
    DateIso(v) \o <<"T">> \o Pad(v.hour, 2) \o <<":">> \o Pad(v.minute, 2)
        \o <<":">> \o Pad(v.second, 2)
        \o (IF v.microsecond # 0 THEN <<".">> \o Pad(v.microsecond, 6) ELSE <<>>)
        \o (IF v.tz # NoneT THEN v.tz ELSE <<>>)

\* is_valid_xml_char_ordinal, for the characters of the model: of the
\* code points below 0x20 only tab, newline and carriage return are valid,
\* and a surrogate is not
IsValidXmlChar(c) ==
    /\ \A i \in 1..Len(REPLACEMENTS) : REPLACEMENTS[i] # c
    /\ c # "\\ud800"

clean_xml_string(s) == SelectSeq(s, IsValidXmlChar)

\* Solr._from_python
_from_python(value) ==
    clean_xml_string(
        CASE value.t = "datetime" -> DatetimeIso(value) \o <<"Z">>
          [] value.t = "date" -> DateIso(value) \o <<"T","0","0",":","0","0",":","0","0","Z">>
          [] value.t = "bool" -> IF value.v THEN <<"t","r","u","e">>
                                 ELSE <<"f","a","l","s","e">>
          [] value.t = "int" -> IntToText(value.v)
          [] value.t = "float" -> value.repr
          [] OTHER -> value.v)

\* DATETIME_REGEX without its anchors: dddd-dd-ddTdd:dd:dd, an optional '.'
\* with digits, and Z
DatetimePattern(t) ==
    /\ Len(t) >= 20
    /\ \A i \in {1, 2, 3, 4, 6, 7, 9, 10, 12, 13, 15, 16, 18, 19} : IsDigit(t[i])
    /\ t[5] = "-" /\ t[8] = "-" /\ t[11] = "T" /\ t[14] = ":" /\ t[17] = ":"
    /\ t[Len(t)] = "Z"
    /\ \/ Len(t) = 20
       \/ /\ Len(t) >= 22
          /\ t[20] = "."
          /\ \A i \in 21..(Len(t) - 1) : IsDigit(t[i])

\* DATETIME_REGEX.search(text): ^ is the start of the text, $ its end or
\* the place before a newline that ends it
DatetimeRegexMatches(t) ==
    \/ DatetimePattern(t)
    \/ /\ t # <<>> /\ t[Len(t)] = "\n"
       /\ DatetimePattern(SubSeq(t, 1, Len(t) - 1))

\* the days of a month, as datetime() checks them
DaysInMonth(year, month) ==
    IF month \in {4, 6, 9, 11} THEN 30
    ELSE IF month = 2
         THEN IF (year % 4 = 0 /\ year % 100 # 0) \/ year % 400 = 0 THEN 29 ELSE 28
         ELSE 31

\* datetime.datetime(year, month, day, hour, minute, second): ValueError
\* when a field is out of range
MakeDatetime(year, month, day, hour, minute, second) ==
    IF /\ year >= 1 /\ month \in 1..12 /\ day \in 1..DaysInMonth(year, month)
       /\ hour \in 0..23 /\ minute \in 0..59 /\ second \in 0..59
    THEN [t |-> "datetime", year |-> year, month |-> month, day |-> day,
          hour |-> hour, minute |-> minute, second |-> second,
          microsecond |-> 0, tz |-> NoneT]
    ELSE [t |-> "raise", exc |-> "ValueError"]

\* a decimal integer with an optional sign (no leading zero but in a zero)
IsIntLiteral(t) ==
    LET d == IF t # <<>> /\ Head(t) \in {"-", "+"} THEN Tail(t) ELSE t
    IN  /\ d # <<>>
        /\ \A i \in 1..Len(d) : IsDigit(d[i])
        /\ (Head(d) = "0" => \A i \in 1..Len(d) : d[i] = "0")

LiteralInt(t) ==
    IF Head(t) = "-" THEN 0 - TextToNat(Tail(t))
    ELSE IF Head(t) = "+" THEN TextToNat(Tail(t))
    ELSE TextToNat(t)

\* a text in quotes, with no quote and no backslash inside
IsQuoted(t) ==
    /\ Len(t) >= 2
    /\ Head(t) \in {"'", "\""} /\ t[Len(t)] = Head(t)
    /\ \A i \in 2..(Len(t) - 1) : t[i] \notin {"'", "\"", "\\", "\n"}

\* a dict display whose key is a list display: {[...]: n}
IsListKeyedDict(t) ==
    \E i \in 3..(Len(t) - 3) :
        /\ t[1] = "{" /\ t[2] = "[" /\ t[i] = "]" /\ t[i + 1] = ":" /\ t[Len(t)] = "}"
        /\ (i = 3 \/ IsIntLiteral(SubSeq(t, 3, i - 1)))
        /\ IsIntLiteral(SubSeq(t, i + 2, Len(t) - 1))

\* what literal_eval leaves of the text before parsing it: blanks and tabs
\* at the left are stripped, blanks at the right are ignored by the parser
RECURSIVE LStripBlank(_)
LStripBlank(t) == IF t # <<>> /\ Head(t) \in {" ", "\t"} THEN LStripBlank(Tail(t)) ELSE t
RECURSIVE RStripBlank(_)
RStripBlank(t) ==
    IF t # <<>> /\ t[Len(t)] \in {" ", "\t"} THEN RStripBlank(SubSeq(t, 1, Len(t) - 1)) ELSE t

\* Python's None as a value
PyNone == [t |-> "NoneType"]

\* ast.literal_eval(value) on the values of the model: numbers, the
\* constants, quoted texts; a dict display keyed by a list raises TypeError;
\* any other text raises SyntaxError or ValueError, and so does a value
\* that is not a text
literal_eval(value) ==
    IF value.t # "str" THEN [t |-> "raise", exc |-> "ValueError"]
    ELSE LET src == RStripBlank(LStripBlank(value.v))
         IN  IF IsIntLiteral(src) THEN [t |-> "int", v |-> LiteralInt(src)]
             ELSE IF src = <<"T","r","u","e">> THEN [t |-> "bool", v |-> TRUE]
             ELSE IF src = <<"F","a","l","s","e">> THEN [t |-> "bool", v |-> FALSE]
             ELSE IF src = <<"N","o","n","e">> THEN PyNone
             ELSE IF IsQuoted(src) THEN [t |-> "str", v |-> SubSeq(src, 2, Len(src) - 1)]
             ELSE IF IsListKeyedDict(src) THEN [t |-> "raise", exc |-> "TypeError"]
             ELSE IF src = <<>> THEN [t |-> "raise", exc |-> "SyntaxError"]
             ELSE IF \A i \in 1..Len(src) : src[i] \in {"a", "x"}
                  THEN [t |-> "raise", exc |-> "ValueError"]
                  ELSE [t |-> "raise", exc |-> "SyntaxError"]

\* lines 623-662 of _to_python: the value after the sequence rule
ToPythonScalar(value) ==
    IF value.t = "str" /\ value.v = <<"t","r","u","e">> THEN [t |-> "bool", v |-> TRUE]
    ELSE IF value.t = "str" /\ value.v = <<"f","a","l","s","e">> THEN [t |-> "bool", v |-> FALSE]
    ELSE IF value.t = "str" /\ DatetimeRegexMatches(value.v)
    THEN LET t == value.v
         IN  MakeDatetime(TextToNat(SubSeq(t, 1, 4)), TextToNat(SubSeq(t, 6, 7)),
                          TextToNat(SubSeq(t, 9, 10)), TextToNat(SubSeq(t, 12, 13)),
                          TextToNat(SubSeq(t, 15, 16)), TextToNat(SubSeq(t, 18, 19)))
    ELSE LET parsed == literal_eval(value)
         IN  IF parsed.t # "raise" THEN parsed
             ELSE IF parsed.exc \in {"ValueError", "SyntaxError"} THEN value
             ELSE parsed

\* Solr._to_python
_to_python(value) ==
    IF value.t \in {"int", "float", "bool"} THEN value
    ELSE IF value.t = "list"
    THEN IF value.v = <<>> THEN [t |-> "raise", exc |-> "IndexError"]
         ELSE ToPythonScalar(value.v[1])
    ELSE ToPythonScalar(value)

TzOffsets == { NoneT, <<"+","0","0",":","0","0">>, <<"-","0","5",":","3","0">> }

Datetimes ==
    [t : {"datetime"}, year : {7, 2024}, month : {1, 12}, day : {1, 28},
     hour : {0, 23}, minute : {0, 59}, second : {0, 59},
     microsecond : {0, 1500}, tz : TzOffsets]

Dates == [t : {"date"}, year : {7, 2024}, month : {1, 12}, day : {1, 28}]

PyValues ==
    [t : {"bool"}, v : BOOLEAN] \cup [t : {"int"}, v : (0 - MaxInt)..MaxInt]
        \cup Datetimes \cup Dates

NoValue == [t |-> "none"]

InitCodec ==
    /\ pyVal = NoValue
    /\ wire = NoneT
    /\ back = NoValue

\* _from_python on a native value
Encode ==
    /\ pyVal = NoValue
    /\ \E v \in PyValues :
         /\ pyVal' = v
         /\ wire' = _from_python(v)
    /\ back' = back
    /\ UNCHANGED <<sendVars, scrapeVars, extVars>>

\* _to_python on the text that _from_python produced
Decode ==
    /\ wire # NoneT
    /\ back = NoValue
    /\ back' = _to_python([t |-> "str", v |-> wire])
    /\ UNCHANGED <<pyVal, wire, sendVars, scrapeVars, extVars>>

\* the round trip is over
CodecDone ==
    /\ back # NoValue
    /\ pyVal' = NoValue
    /\ wire' = NoneT
    /\ back' = NoValue
    /\ UNCHANGED <<sendVars, scrapeVars, extVars>>

----------------------------------------------------------------------------
(* _to_python on the values a decoded Solr response holds.                 *)

\* a field value of Solr in the date format, with an optional fraction and
\* an optional newline after it
SolrDateText(year, month, day, hour, minute, second, fraction, eol) ==
    Pad(year, 4) \o <<"-">> \o Pad(month, 2) \o <<"-">> \o Pad(day, 2) \o <<"T">>
        \o Pad(hour, 2) \o <<":">> \o Pad(minute, 2) \o <<":">> \o Pad(second, 2)
        \o fraction \o <<"Z">> \o eol

DateTexts ==
    { SolrDateText(y, m, d, h, 59, sec, f, e) :
        y \in {0, 2024}, m \in {2, 12, 13}, d \in {1, 30, 32}, h \in {0, 24},
        sec \in {0, 60}, f \in { <<>>, <<".","5">> }, e \in { <<>>, <<"\n">> } }

PlainTexts ==
    { <<"t","r","u","e">>, <<"f","a","l","s","e">>, <<"T","r","u","e">>,
      <<"N","o","n","e">>, <<"x">>, <<"1","2">>, <<"0","0","7">>, <<"-","3">>,
      <<" ","5">>, <<"'","a","'">>, <<"{","[","]",":","0","}">>, <<>>,
      <<"2","0","2","4","-","0","1","-","0","1">>,
      <<"2","0","2","4","-","0","1","-","0","1","T","0","0",":","0","0",":","0","0",".","Z">> }

SolrTexts == [t : {"str"}, v : DateTexts \cup PlainTexts]

SolrScalars ==
    SolrTexts \cup [t : {"int"}, v : {0 - MaxInt, MaxInt}] \cup [t : {"bool"}, v : {TRUE}]
        \cup { [t |-> "float", repr |-> <<"1",".","5">>], PyNone }

\* a multi-valued field: a list of one or two values
SolrLists ==
    [t : {"list"}, v : { <<a>> : a \in SolrScalars }]
        \cup [t : {"list"},
              v : { <<a, b>> : a \in [t : {"str"}, v : PlainTexts], b \in { PyNone } }]
        \cup { [t |-> "list", v |-> <<>>] }

SolrValues == SolrScalars \cup SolrLists

InitToPython ==
    /\ toPyIn = NoValue
    /\ toPyOut = NoValue

\* _to_python(value)
CallToPython ==
    /\ toPyIn = NoValue
    /\ \E value \in SolrValues :
         /\ toPyIn' = value
         /\ toPyOut' = _to_python(value)
    /\ UNCHANGED <<sendVars, scrapeVars, codecVars, docVars, sanVars, joinVars,
                   termVars, concVars>>

\* the caller has the value or the exception
ToPythonDone ==
    /\ toPyIn # NoValue
    /\ toPyIn' = NoValue
    /\ toPyOut' = NoValue
    /\ UNCHANGED <<sendVars, scrapeVars, codecVars, docVars, sanVars, joinVars,
                   termVars, concVars>>

----------------------------------------------------------------------------
(* _build_doc: the doc element of one document.  A dict is the sequence of *)
(* its items in insertion order; an optional dict is None or a dict.       *)

\* the longest multi-valued field of a document
MaxValues == 2

\* force_unicode(value) of a value that is not bytes
force_unicode(value) ==
    CASE value.t = "str" -> value.v
      [] value.t = "int" -> IntToText(value.v)
      [] value.t = "bool" -> IF value.v THEN <<"T","r","u","e">> ELSE <<"F","a","l","s","e">>
      [] value.t = "float" -> value.repr
      [] OTHER -> <<"N","o","n","e">>

\* a mutant of _is_null_value: the empty string is not taken for null
_is_null_value_noneOnly(value) == value = PyNone

\* Solr._is_null_value
_is_null_value(value) ==
    IF value = PyNone THEN TRUE
    ELSE IF value.t = "str" /\ Len(value.v) = 0 THEN TRUE
    ELSE FALSE

\* lines 813-828: the loop over the values of one field
RECURSIVE FieldElements(_, _, _, _)
FieldElements(values, key, boost, fieldUpdates) ==
    IF values = <<>> THEN <<>>
    ELSE LET bit == Head(values)
             rest == FieldElements(Tail(values), key, boost, fieldUpdates)
         IN  IF _is_null_value(bit) THEN rest
             ELSE << [name |-> key,
                      text |-> _from_python(bit),
                      boost |-> IF TruthyDict(boost) /\ HasKey(boost, key)
                                THEN force_unicode(Lookup(boost, key)) ELSE NoneT,
                      update |-> IF TruthyDict(fieldUpdates) /\ HasKey(fieldUpdates, key)
                                 THEN Lookup(fieldUpdates, key) ELSE NoneT] >> \o rest

\* lines 802-828: the loop over the items of the document
RECURSIVE BuildDocFrom(_, _, _)
BuildDocFrom(items, boost, fieldUpdates) ==
    IF items = <<>> THEN [fields |-> <<>>, boost |-> NoneT]
    ELSE LET key == Head(items).key
             value == Head(items).value
             rest == BuildDocFrom(Tail(items), boost, fieldUpdates)
         IN  IF key = <<"b","o","o","s","t">>
             THEN [rest EXCEPT !.boost = force_unicode(value)]
             ELSE [rest EXCEPT !.fields =
                      FieldElements(IF value.t = "list" THEN value.v ELSE <<value>>,
                                    key, boost, fieldUpdates) \o rest.fields]

\* Solr._build_doc
_build_doc(doc, boost, fieldUpdates) == BuildDocFrom(doc.items, boost, fieldUpdates)

\* the values of a field
DocScalars ==
    { PyNone, [t |-> "str", v |-> <<>>], [t |-> "str", v |-> <<"x">>],
      [t |-> "str", v |-> <<"<","&">>], [t |-> "int", v |-> 7] }

RECURSIVE SeqsUpTo(_, _)
SeqsUpTo(S, n) ==
    IF n = 0 THEN { <<>> }
    ELSE LET shorter == SeqsUpTo(S, n - 1)
         IN  shorter \cup { Append(q, x) : q \in shorter, x \in S }

DocValues == DocScalars \cup [t : {"list"}, v : SeqsUpTo(DocScalars, MaxValues)]

DocKeys == { <<"i","d">>, <<"a","<">>, <<"b","o","o","s","t">> }

\* documents of one field, and of two fields with different names
SecondValues ==
    { PyNone, [t |-> "str", v |-> <<"y">>],
      [t |-> "list", v |-> << [t |-> "int", v |-> 7], PyNone >>] }

\* documents of one field, and of two fields with different names; the
\* boost of a document is a single value
Docs ==
    { d \in { Dict(<< [key |-> k, value |-> v] >>) : k \in DocKeys, v \in DocValues }
              \cup { Dict(<< [key |-> k, value |-> v], [key |-> k2, value |-> v2] >>) :
                       k \in DocKeys, v \in DocValues, k2 \in DocKeys,
                       v2 \in SecondValues } :
         /\ \A i, j \in 1..Len(d.items) : i # j => d.items[i].key # d.items[j].key
         /\ \A i \in 1..Len(d.items) :
               d.items[i].key = <<"b","o","o","s","t">> => d.items[i].value.t # "list" }

Boosts == { NoDict, Dict(<< [key |-> <<"i","d">>, value |-> [t |-> "int", v |-> 3]] >>) }
FieldUpdates == { NoDict, Dict(<<>>), Dict(<< [key |-> <<"i","d">>, value |-> <<"s","e","t">>] >>) }

NoBuild == [none |-> TRUE]

InitBuild ==
    /\ buildIn = NoBuild
    /\ doc_elem = NoBuild

\* _build_doc(doc, boost, fieldUpdates)
CallBuildDoc ==
    /\ buildIn = NoBuild
    /\ \E doc \in Docs, boost \in Boosts, fieldUpdates \in FieldUpdates :
         /\ buildIn' = [none |-> FALSE, boost |-> boost, fieldUpdates |-> fieldUpdates,
                        doc |-> doc]
         /\ doc_elem' = _build_doc(doc, boost, fieldUpdates)
    /\ UNCHANGED <<sendVars, scrapeVars, codecVars, toPyVars, sanVars, joinVars,
                   termVars, concVars>>

\* the caller has the element
BuildDocDone ==
    /\ buildIn # NoBuild
    /\ buildIn' = NoBuild
    /\ doc_elem' = NoBuild
    /\ UNCHANGED <<sendVars, scrapeVars, codecVars, toPyVars, sanVars, joinVars,
                   termVars, concVars>>

----------------------------------------------------------------------------
(* sanitize on texts.                                                      *)

\* the longest text given to sanitize
MaxText == 3

\* the characters of the texts: a letter, the three allowed control
\* characters, three of the others, a two-byte letter and a lone surrogate
SanChars == {"a", "\t", "\n", "\r", "\\x00", "\\x0b", "\\x1f", "é", "\\ud800"}

SanTexts == SeqsUpTo(SanChars, MaxText)

InitSanitize ==
    /\ sanIn = NoneT
    /\ sanOut = NoneT

\* sanitize(data)
CallSanitize ==
    /\ sanIn = NoneT
    /\ \E data \in SanTexts :
         /\ sanIn' = data
         /\ sanOut' = sanitize(data)
    /\ UNCHANGED <<sendVars, scrapeVars, codecVars, toPyVars, docVars, joinVars,
                   termVars, concVars>>

\* the caller has the text
SanitizeDone ==
    /\ sanOut # NoneT
    /\ sanIn' = NoneT
    /\ sanOut' = NoneT
    /\ UNCHANGED <<sendVars, scrapeVars, codecVars, toPyVars, docVars, joinVars,
                   termVars, concVars>>


----------------------------------------------------------------------------
(* _create_full_url on base URLs and paths with slashes at the join.       *)

\* the most slashes at the end of a base URL and at the start of a path
MaxSlashes == 2

Slashes(n) == [i \in 1..n |-> "/"]

JoinBases == { <<"h",":","/","/","s">> \o Slashes(n) : n \in 0..MaxSlashes }

JoinPaths ==
    { Slashes(n) \o rest :
        n \in 0..MaxSlashes,
        rest \in { <<>>, <<"a">>, <<"a","/">>, <<"a","/","/","b">>, <<"?","q">>,
                   <<"s","e","l","e","c","t","/","?","q","=","*">>,
                   <<"u","p","d","a","t","e","/">>, <<"m","l","t","/","?","q","=","/">>,
                   <<"t","e","r","m","s","/">>, <<"a","/","b","/">>, <<" ">>, <<"%","2","F">> } }

InitJoin ==
    /\ joinPath = NoneT
    /\ full_url = NoneT

\* _create_full_url(path)
CallCreateFullUrl ==
    /\ joinPath = NoneT
    /\ \E path \in JoinPaths :
         /\ joinPath' = path
         /\ full_url' = _create_full_url(url, path)
    /\ UNCHANGED <<sendVars, scrapeVars, codecVars, toPyVars, docVars, sanVars,
                   termVars, concVars>>

\* the caller has the URL
CreateFullUrlDone ==
    /\ joinPath # NoneT
    /\ joinPath' = NoneT
    /\ full_url' = NoneT
    /\ UNCHANGED <<sendVars, scrapeVars, codecVars, toPyVars, docVars, sanVars,
                   termVars, concVars>>

----------------------------------------------------------------------------
(* The normalisation of suggest_terms on decoded 'terms' values.           *)

\* the longest list of values of a field
MaxTerms == 3

TermValues ==
    SeqsUpTo({ [t |-> "str", v |-> <<"r","e","d">>], [t |-> "int", v |-> 5] }, MaxTerms)

\* the terms of one field and of two fields, as a mapping
TermMappings ==
    { << [key |-> k, value |-> v] >> : k \in { <<"f">>, <<"g">> }, v \in TermValues }
        \cup { << [key |-> <<"f">>, value |-> v], [key |-> <<"g">>, value |-> w] >> :
                 v \in TermValues, w \in TermValues }

\* the same terms as a flat list: field, values, field, values, ...
RECURSIVE FlatTerms(_)
FlatTerms(items) ==
    IF items = <<>> THEN <<>>
    ELSE << [t |-> "str", v |-> Head(items).key], [t |-> "list", v |-> Head(items).value] >>
            \o FlatTerms(Tail(items))

NoTerms == [none |-> TRUE]

InitTerms ==
    /\ termsIn = NoTerms
    /\ termsOut = NoTerms

\* lines 776-796 of suggest_terms on a decoded response of either shape
CallNormaliseTerms ==
    /\ termsIn = NoTerms
    /\ \E mapping \in TermMappings, shape \in {"list", "dict"} :
         LET result == [terms |-> [v |-> IF shape = "list" THEN FlatTerms(mapping)
                                         ELSE mapping,
                                   shape |-> shape]]
         IN  /\ termsIn' = [none |-> FALSE, shape |-> shape, result |-> result,
                            mapping |-> mapping]
             /\ termsOut' = NormaliseTerms(result)
    /\ UNCHANGED <<sendVars, scrapeVars, codecVars, toPyVars, docVars, sanVars,
                   joinVars, concVars>>

\* the caller has the result
NormaliseTermsDone ==
    /\ termsIn # NoTerms
    /\ termsIn' = NoTerms
    /\ termsOut' = NoTerms
    /\ UNCHANGED <<sendVars, scrapeVars, codecVars, toPyVars, docVars, sanVars,
                   joinVars, concVars>>

----------------------------------------------------------------------------
(* The update operations: add, commit and optimize, and more_like_this.    *)
(* The markup that the code writes is kept in pieces of several            *)
(* characters; a piece of one character is a character of the content.     *)

\* ElementTree's escape of a character of a text
EscapeCdataCh(c) ==
    CASE c = "&" -> <<"&amp;">> [] c = "<" -> <<"&lt;">> [] c = ">" -> <<"&gt;">>
      [] OTHER -> <<c>>

\* ElementTree's escape of a character of an attribute value
EscapeAttribCh(c) ==
    CASE c = "&" -> <<"&amp;">> [] c = "<" -> <<"&lt;">> [] c = ">" -> <<"&gt;">>
      [] c = "\"" -> <<"&quot;">> [] c = "\n" -> <<"&#10;">> [] c = "\r" -> <<"&#13;">>
      [] c = "\t" -> <<"&#09;">> [] OTHER -> <<c>>

RECURSIVE _escape_cdata(_)
_escape_cdata(text) ==
    IF text = <<>> THEN <<>> ELSE EscapeCdataCh(Head(text)) \o _escape_cdata(Tail(text))

RECURSIVE _escape_attrib(_)
_escape_attrib(text) ==
    IF text = <<>> THEN <<>> ELSE EscapeAttribCh(Head(text)) \o _escape_attrib(Tail(text))

\* ET.tostring of a field element
FieldXml(field) ==
    <<"<field name=\"">> \o _escape_attrib(field.name)
        \o (IF field.update = NoneT THEN <<>>
            ELSE <<"\" update=\"">> \o _escape_attrib(field.update))
        \o (IF field.boost = NoneT THEN <<>>
            ELSE <<"\" boost=\"">> \o _escape_attrib(field.boost))
        \o (IF field.text = <<>> THEN <<"\" />">>
            ELSE <<"\">">> \o _escape_cdata(field.text) \o <<"</field>">>)

RECURSIVE FieldsXml(_)
FieldsXml(fields) ==
    IF fields = <<>> THEN <<>> ELSE FieldXml(Head(fields)) \o FieldsXml(Tail(fields))

\* ET.tostring of a doc element
DocXml(elem) ==
    LET close == IF elem.fields = <<>> THEN <<>>
                 ELSE FieldsXml(elem.fields) \o <<"</doc>">>
    IN  IF elem.boost = NoneT
        THEN (IF elem.fields = <<>> THEN <<"<doc />">> ELSE <<"<doc>">>) \o close
        ELSE <<"<doc boost=\"">> \o _escape_attrib(elem.boost)
                \o (IF elem.fields = <<>> THEN <<"\" />">> ELSE <<"\">">>) \o close

RECURSIVE DocsXml(_, _, _)
DocsXml(docs, boost, fieldUpdates) ==
    IF docs = <<>> THEN <<>>
    ELSE DocXml(_build_doc(Head(docs), boost, fieldUpdates))
            \o DocsXml(Tail(docs), boost, fieldUpdates)

\* lines 872-883 of add: the message
AddMessage(docs, boost, fieldUpdates, commitWithin) ==
    LET close == IF docs = <<>> THEN <<>>
                 ELSE DocsXml(docs, boost, fieldUpdates) \o <<"</add>">>
    IN  IF Truthy(commitWithin)
        THEN <<"<add commitWithin=\"">> \o _escape_attrib(commitWithin)
                \o (IF docs = <<>> THEN <<"\" />">> ELSE <<"\">">>) \o close
        ELSE (IF docs = <<>> THEN <<"<add />">> ELSE <<"<add>">>) \o close

\* lines 939-942 of commit: the message
CommitMessage(expungeDeletes) ==
    IF expungeDeletes # "None"
    THEN <<"<commit expungeDeletes=\"", BoolLower(expungeDeletes), "\" />">>
    ELSE <<"<commit />">>

\* lines 963-966 of optimize: the message, of a maxSegments that is None
\* or an integer
OptimizeMessage(maxSegments) ==
    IF maxSegments # PyNone /\ maxSegments.v # 0
    THEN <<"<optimize maxSegments=\"">> \o IntToText(maxSegments.v) \o <<"\" />">>
    ELSE <<"<optimize />">>

\* lines 744-748 of more_like_this: the parameters given to _mlt
MltParams(q, mltfl, kwargs) ==
    Update(Dict(<< [key |-> <<"q">>, value |-> [t |-> "str", v |-> q]],
                   [key |-> <<"m","l","t",".","f","l">>,
                    value |-> [t |-> "str", v |-> mltfl]] >>), kwargs.items)

\* Solr._mlt: the arguments it gives to _send_request
_mlt(params) ==
    [headers |-> "None",
     path |-> <<"m","l","t","/","?">> \o safe_urlencode(SetItem(params, <<"w","t">>, WtJson)),
     body |-> NoneT, method |-> <<"g","e","t">>]

\* commit = True if commit is None else commit (line 867), and the same
\* for softCommit with False (line 868)
OrDefault(v, default) == IF v = "None" THEN default ELSE v

\* an operation up to its call of _send_request: the exception it raises
\* before that, or the arguments of the call
Prepared(args) == [ok |-> TRUE, cls |-> "none", args |-> args]
RaisesFirst(cls) ==
    [ok |-> FALSE, cls |-> cls,
     args |-> [headers |-> "None", path |-> <<>>, body |-> NoneT, method |-> <<>>]]

Prepare(o) ==
    CASE o.name = "search" -> Prepared(_select(SearchParams(o.q, o.kwargs)))
      [] o.name = "more_like_this" -> Prepared(_mlt(MltParams(o.q, o.mltfl, o.kwargs)))
      [] o.name = "suggest_terms" ->
            Prepared(_suggest_terms(SuggestParams(o.fields, o.prefix, o.kwargs)))
      [] o.name = "add" ->
            Prepared(_update(AddMessage(o.docs, o.boost, o.fieldUpdates, o.commitWithin),
                             TRUE, OrDefault(o.commit, "True"),
                             OrDefault(o.softCommit, "False"), o.waitFlush, o.waitSearcher))
      [] o.name = "delete" ->
            IF DeleteMessage(o.id, o.q).ok
            THEN Prepared(_update(DeleteMessage(o.id, o.q).m, TRUE, o.commit, "False",
                                  o.waitFlush, o.waitSearcher))
            ELSE RaisesFirst("ValueError")
      [] o.name = "commit" ->
            Prepared(_update(CommitMessage(o.expungeDeletes), TRUE, "True", o.softCommit,
                             o.waitFlush, o.waitSearcher))
      [] o.name = "optimize" ->
            Prepared(_update(OptimizeMessage(o.maxSegments), TRUE, "True", "False",
                             o.waitFlush, o.waitSearcher))

\* the call of an operation up to the yield of fetch, or to its exception
Begin(o) ==
    LET p == Prepare(o)
    IN  /\ pc = "idle"
        /\ op' = o
        /\ IF p.ok
           THEN /\ sent' = <<BuildRequest(url, p.args.method, p.args.path, p.args.body,
                                          p.args.headers)>>
                /\ pc' = "fetching"
                /\ outcome' = outcome
           ELSE /\ sent' = sent
                /\ pc' = "done"
                /\ outcome' = RaisedError(p.cls, <<>>)
        /\ UNCHANGED <<url, fetched, scrapeVars, codecVars, extVars>>

\* the documents given to add
AddDocs ==
    { <<>>,
      << Dict(<< [key |-> <<"i","d">>, value |-> [t |-> "str", v |-> <<"a","<","&",">","\"">>]],
                 [key |-> <<"n","<","\"">>,
                  value |-> [t |-> "list", v |-> << PyNone, [t |-> "str", v |-> <<>>],
                                                    [t |-> "int", v |-> 7] >>]] >>) >>,
      << Dict(<< [key |-> <<"i","d">>, value |-> [t |-> "str", v |-> <<"x","\\x00">>]] >>),
         Dict(<<>>) >>,
      << Dict(<< [key |-> <<"b","o","o","s","t">>, value |-> [t |-> "int", v |-> 7]],
                 [key |-> <<"i","d">>, value |-> [t |-> "str", v |-> <<>>]] >>) >> }

\* add(docs, boost, fieldUpdates, commit, softCommit, commitWithin, waitFlush,
\* waitSearcher)
CallAdd ==
    \E docs \in AddDocs, boost \in Boosts, fieldUpdates \in FieldUpdates,
       commit \in PyBools, softCommit \in PyBools,
       commitWithin \in { NoneT, <<"1","0","\"","<">> },
       waitFlush \in {"None", "True"}, waitSearcher \in {"None", "False"} :
        Begin([name |-> "add", commit |-> commit, softCommit |-> softCommit,
               waitFlush |-> waitFlush, waitSearcher |-> waitSearcher,
               docs |-> docs, boost |-> boost,
               fieldUpdates |-> fieldUpdates, commitWithin |-> commitWithin])

\* commit(softCommit, waitFlush, waitSearcher, expungeDeletes)
CallCommit ==
    \E softCommit \in PyBools, waitFlush \in PyBools, waitSearcher \in PyBools,
       expungeDeletes \in PyBools :
        Begin([name |-> "commit", softCommit |-> softCommit, waitFlush |-> waitFlush,
               waitSearcher |-> waitSearcher, expungeDeletes |-> expungeDeletes])

\* optimize(waitFlush, waitSearcher, maxSegments)
CallOptimize ==
    \E waitFlush \in PyBools, waitSearcher \in PyBools,
       maxSegments \in { PyNone, [t |-> "int", v |-> 0], [t |-> "int", v |-> 2] } :
        Begin([name |-> "optimize", waitFlush |-> waitFlush,
               waitSearcher |-> waitSearcher, maxSegments |-> maxSegments])

\* more_like_this(q, mltfl, **kwargs)
CallMoreLikeThis ==
    \E q \in { <<"i","d",":","1">> }, mltfl \in { <<"t">>, <<"t",",","u">> },
       kwargs \in SearchKwargs :
        Begin([name |-> "more_like_this", q |-> q, kwargs |-> kwargs, mltfl |-> mltfl])

----------------------------------------------------------------------------
(* Operations running concurrently on one client. Each is a coroutine: it  *)
(* runs without interruption up to the yield of fetch, again from the      *)
(* delivery to the return of _send_request, and again when its caller      *)
(* resumes; between these steps the steps of other operations may run.     *)

\* the most operations in flight on the client at one time
MaxCalls == 2

Callers == 1..MaxCalls

NoRequest == [none |-> TRUE]

IdleCall ==
    [pc |-> "idle", op |-> NoOp, fetched |-> NoDelivery, request |-> NoRequest,
     result |-> NoOutcome, returned |-> NoOutcome]

\* Solr.__init__ with the defaults: timeout or 60, decoder or
\* json.JSONDecoder(), results_cls or Results; no operation is running
InitConfig ==
    /\ timeout = 60
    /\ decoder = "JSONDecoder"
    /\ results_cls = "Results"
    /\ calls = [p \in Callers |-> IdleCall]

\* one call of each operation
ConcOps ==
    { [name |-> "search", q |-> <<"a"," ","b">>, kwargs |-> Dict(<<>>)],
      [name |-> "more_like_this", q |-> <<"i","d",":","1">>, kwargs |-> Dict(<<>>),
       mltfl |-> <<"t">>],
      [name |-> "suggest_terms", kwargs |-> Dict(<<>>), fields |-> <<"f">>,
       prefix |-> <<"a">>],
      [name |-> "add", commit |-> "None", softCommit |-> "None", waitFlush |-> "None",
       waitSearcher |-> "None",
       docs |-> << Dict(<< [key |-> <<"i","d">>, value |-> [t |-> "str", v |-> <<"a">>]] >>) >>,
       boost |-> NoDict, fieldUpdates |-> NoDict, commitWithin |-> NoneT],
      [name |-> "delete", commit |-> "True", waitFlush |-> "None", waitSearcher |-> "None",
       id |-> <<"7">>, q |-> NoneT],
      [name |-> "commit", softCommit |-> "False", waitFlush |-> "None",
       waitSearcher |-> "None", expungeDeletes |-> "None"],
      [name |-> "optimize", waitFlush |-> "None", waitSearcher |-> "None",
       maxSegments |-> PyNone] }

\* what the transport delivers to a concurrent call: a response with a
\* body, or a refused connection
ConcDeliveries(request) ==
    { d \in Deliveries(request) :
        \/ d = Delivery("response", "none", <<"2","0","0">>, TermsBody, NoResponse)
        \/ d = Delivery("exception", "ConnectionRefusedError", <<>>, <<>>, NoResponse) }

\* a mutant of ConcRequest: the request is kept in a field of the client, and
\* a call that starts while another is waiting sends that one's request
ConcRequest_sharedField(cs, p, o) ==
    LET waiting == { q \in Callers \ {p} : cs[q].pc = "fetching" }
        a == Prepare(o).args
    IN  IF waiting # {} THEN cs[CHOOSE q \in waiting : TRUE].request
        ELSE [http |-> BuildRequest(url, a.method, a.path, a.body, a.headers),
              request_timeout |-> timeout]

\* the HTTPRequest that call p makes of operation o while the calls are as
\* in cs (lines 388-389): made of the arguments and of self.url and
\* self.timeout
ConcRequest(cs, p, o) ==
    LET a == Prepare(o).args
    IN  [http |-> BuildRequest(url, a.method, a.path, a.body, a.headers),
         request_timeout |-> timeout]

\* a caller starts an operation, which runs up to the yield of fetch
StartCall(p) ==
    /\ calls[p].pc = "idle"
    /\ \E o \in ConcOps :
         calls' = [calls EXCEPT ![p] = [IdleCall EXCEPT !.pc = "fetching", !.op = o,
                                         !.request = ConcRequest(calls, p, o)]]
    /\ UNCHANGED <<sendVars, scrapeVars, codecVars, toPyVars, docVars, sanVars,
                   joinVars, termVars, timeout, decoder, results_cls>>

\* fetch delivers to a waiting call, and its _send_request runs to its end
FetchDelivers(p) ==
    /\ calls[p].pc = "fetching"
    /\ \E d \in ConcDeliveries(calls[p].request.http) :
         calls' = [calls EXCEPT ![p].pc = "returned", ![p].fetched = d,
                                ![p].returned = HandleFetch(calls[p].request.http, d)]
    /\ UNCHANGED <<sendVars, scrapeVars, codecVars, toPyVars, docVars, sanVars,
                   joinVars, termVars, timeout, decoder, results_cls>>

\* the operation resumes after _send_request and runs to its end
Resume(p) ==
    /\ calls[p].pc = "returned"
    /\ calls' = [calls EXCEPT ![p].pc = "done",
                              ![p].result = Finish(calls[p].op, calls[p].returned)]
    /\ UNCHANGED <<sendVars, scrapeVars, codecVars, toPyVars, docVars, sanVars,
                   joinVars, termVars, timeout, decoder, results_cls>>

\* the caller has the result and may start another operation
CallReturns(p) ==
    /\ calls[p].pc = "done"
    /\ calls' = [calls EXCEPT ![p] = IdleCall]
    /\ UNCHANGED <<sendVars, scrapeVars, codecVars, toPyVars, docVars, sanVars,
                   joinVars, termVars, timeout, decoder, results_cls>>

----------------------------------------------------------------------------
(* The specifications: the state after construction, and the calls.        *)

Init == InitSend /\ InitScrape /\ InitCodec /\ InitToPython /\ InitBuild
            /\ InitSanitize /\ InitJoin /\ InitTerms /\ InitConfig

Next == CallSendRequest \/ CallSendRequestFiles \/ CallDelete \/ CallSearch
            \/ CallSuggestTerms \/ CallMoreLikeThis \/ CallAdd \/ CallCommit
            \/ CallOptimize
            \/ FetchCompletes \/ CallDone

Spec == Init /\ [][Next]_vars

\* the client the scraper and the codec are looked at with
InitOneClient == Init /\ url = <<"h",":","/","/","s">>

NextScrape == ScrapeHtml \/ ScrapeXml \/ ScrapeDone

SpecScrape == InitOneClient /\ [][NextScrape]_vars

NextCodec == Encode \/ Decode \/ CodecDone

SpecCodec == InitOneClient /\ [][NextCodec]_vars

NextToPython == CallToPython \/ ToPythonDone

SpecToPython == InitOneClient /\ [][NextToPython]_vars

NextBuild == CallBuildDoc \/ BuildDocDone

SpecBuild == InitOneClient /\ [][NextBuild]_vars

NextSanitize == CallSanitize \/ SanitizeDone

SpecSanitize == InitOneClient /\ [][NextSanitize]_vars

\* clients constructed with base URLs that end in any number of slashes
InitJoinClients ==
    /\ url \in JoinBases
    /\ pc = "idle" /\ op = NoOp /\ sent = <<>>
    /\ fetched = NoDelivery /\ outcome = NoOutcome
    /\ InitScrape /\ InitCodec /\ InitToPython /\ InitBuild
    /\ InitSanitize /\ InitJoin /\ InitTerms /\ InitConfig

NextTerms == CallNormaliseTerms \/ NormaliseTermsDone

SpecTerms == InitOneClient /\ [][NextTerms]_vars

NextJoin == CallCreateFullUrl \/ CreateFullUrlDone

SpecJoin == InitJoinClients /\ [][NextJoin]_vars

NextConc ==
    \E p \in Callers : StartCall(p) \/ FetchDelivers(p) \/ Resume(p) \/ CallReturns(p)

SpecConc == InitOneClient /\ [][NextConc]_vars

----------------------------------------------------------------------------
(* Properties of the request dispatcher.                                   *)

\* the call has ended after fetch failed with an exception of class cls
FailedWith(cls) == pc = "done" /\ fetched.kind = "exception" /\ fetched.cls = cls

\* C1: whenever the transport reports a non-2xx response for a request of
\* _send_request, the SolrError raised carries the status code together
\* with the reason and the detail that _scrape_response extracts from the
\* response's headers and body.
C1_ErrorCarriesScrapedText ==
    (FailedWith("HTTPError") /\ fetched.response.present) =>
        LET scraped == _scrape_response(fetched.response.headers, fetched.body, ParseFailed)
        IN  /\ outcome.kind = "raise" /\ outcome.cls = "SolrError"
            /\ Contains(outcome.msg, fetched.code)
            /\ scraped.kind = "return"
            /\ (Truthy(scraped.reason) => Contains(outcome.msg, scraped.reason))
            /\ Contains(outcome.msg, scraped.full_html)

\* C2: whatever the transport delivers for the request of _send_request,
\* the call returns the response text or fails with SolrError; no other
\* kind of exception reaches the caller.
C2_OnlySolrErrorEscapes ==
    (pc = "done" /\ fetched.kind # "none" /\ op.name \in {"_send_request", "delete"}) =>
        \/ outcome.kind = "return"
        \/ outcome.kind = "raise" /\ outcome.cls = "SolrError"

\* C3: a transport failure is classified by its class alone: a malformed
\* URL, an over-long URL, a DNS failure and a connection failure each give
\* a SolrError whose message contains the full URL of the request, an
\* unknown method gives one whose message contains the upper-cased method,
\* and a failure that is a UnicodeError (hence also a ValueError) is
\* reported as 'URL is too long', never as 'URL is empty or protocol missing'.
C3_FailureClassifiedByClass ==
    (pc = "done" /\ fetched.kind = "exception") =>
        /\ fetched.cls \in {"UnicodeError", "ValueError", "gaierror", "ConnectionRefusedError"} =>
              /\ outcome.kind = "raise" /\ outcome.cls = "SolrError"
              /\ Contains(outcome.msg, sent[1].url)
        /\ fetched.cls = "KeyError" =>
              /\ outcome.kind = "raise" /\ outcome.cls = "SolrError"
              /\ op.name = "_send_request" /\ op.method = <<"f","r","o","b">>
              /\ Contains(outcome.msg, <<"F","R","O","B">>)
        /\ "UnicodeError" \in Ancestors(fetched.cls) =>
              /\ Head(outcome.msg) = "URL is too long: "
              /\ Head(outcome.msg) # "URL is empty or protocol missing: "
        /\ fetched.cls = "ValueError" =>
              Head(outcome.msg) = "URL is empty or protocol missing: "

C3_Witness ==
    /\ FailedWith("UnicodeError")
    /\ outcome.kind = "raise" /\ outcome.cls = "SolrError"
    /\ Head(outcome.msg) = "URL is too long: "
    /\ op.name = "delete"

\* C4: delete with neither id nor q, or with both, fails with ValueError
\* (not SolrError) and issues no HTTP request; with exactly one of them it
\* issues exactly one POST to the update path.
C4_DeleteValidatesArguments ==
    op.name = "delete" =>
        IF (op.id = NoneT) = (op.q = NoneT)
        THEN /\ pc = "done"
             /\ outcome.kind = "raise" /\ outcome.cls = "ValueError"
             /\ sent = <<>>
        ELSE /\ Len(sent) = 1
             /\ sent[1].method = <<"P","O","S","T">>
             /\ StartsWith(sent[1].url, RStripSlash(url) \o <<"/","u","p","d","a","t","e","/">>)
             /\ (pc = "done" => ~(outcome.kind = "raise" /\ outcome.cls = "ValueError"))

C4_Witness ==
    /\ op.name = "delete" /\ op.id # NoneT /\ op.q # NoneT
    /\ pc = "done" /\ outcome.kind = "raise" /\ outcome.cls = "ValueError"
    /\ sent = <<>>

----------------------------------------------------------------------------
(* Properties of the error scraper.                                        *)

CoyoteServers == { <<"a","-","C","o","y","o","t","e","/","1">>, <<"C","O","Y","O","T","E">> }
JettyServers == { <<"J","e","t","t","y">> }

\* a call of _scrape_response has ended
Scraped == scrOut # ScrapeIdle

\* the strict parse is not tried, fails, or finds no error node
StrictFoundNothing ==
    \/ ~scrIn.decl
    \/ ~scrIn.tree.ok
    \/ scrIn.tree.msg = Absent /\ scrIn.tree.trace = Absent

\* a node's text that is a string with something in it
IsString(text) == text # Absent /\ text # NoneT /\ Strip(text) # <<>>

\* the heading fragments of a body, in order
Headings(items) == SelectSeq(items, LAMBDA f : f \in HeadingFrags)

\* C5: _scrape_response never raises: for every headers and body it
\* returns a (reason, detail) pair, and when no reason is extracted the
\* detail is the body, raw or re-serialized.
C5_ScraperNeverRaises ==
    Scraped =>
        /\ scrOut.kind = "return"
        /\ scrOut.reason = NoneT =>
              \/ scrOut.full_html = Normalise(scrIn.response)
              \/ scrIn.tree.ok /\ scrOut.full_html = Normalise(scrIn.tree.ser)

C7_TomcatFirstHeading ==
    (Scraped /\ scrIn.headers.server \in CoyoteServers /\ StrictFoundNothing) =>
        /\ scrOut.kind = "return"
        /\ IF Headings(scrIn.items) # <<>>
           THEN scrOut.reason = HeadingText(Head(Headings(scrIn.items)))
           ELSE scrOut = Returned(NoneT, Normalise(scrIn.response))

C7_Witness ==
    /\ Scraped
    /\ scrIn.headers.server = <<"C","O","Y","O","T","E">>
    /\ scrIn.items = <<"H404", "HNF">>
    /\ scrOut.kind = "return"
    /\ scrOut.reason = <<"4","0","4">>

\* C8: for a response not identified as Tomcat (and for which the strict
\* XML step found nothing), the whole body is parsed: with 'jetty' in the
\* server header the reason is the text of body/pre, otherwise the text of
\* head/title; when no reason is found the detail is the serialized tree,
\* and when the parse fails the detail is the raw body (normalised as C9 says).
C8_JettyAndGenericNodes ==
    (Scraped /\ scrIn.headers.server \notin CoyoteServers /\ StrictFoundNothing) =>
        LET node == IF scrIn.headers.server \in JettyServers
                    THEN scrIn.tree.pre ELSE scrIn.tree.title
        IN  IF ~scrIn.tree.ok
            THEN scrOut = Returned(NoneT, Normalise(scrIn.response))
            ELSE IF node # Absent /\ node # NoneT
            THEN scrOut.kind = "return" /\ scrOut.reason = node
            ELSE scrOut = Returned(NoneT, Normalise(scrIn.tree.ser))

C8_Witness ==
    /\ Scraped
    /\ scrIn.headers.server \in JettyServers
    /\ scrIn.tree.ok
    /\ scrIn.tree.pre = <<"P","r","o","b">>
    /\ scrIn.tree.title = <<"E","r","r">>
    /\ scrOut.kind = "return"
    /\ scrOut.reason = <<"P","r","o","b">>

\* C9: on every return through the container-specific steps the detail
\* contains no '\n', no '\r', no '<br/>' and no '<br />', and neither
\* starts nor ends with white space, for every body.
C9_DetailHasNoBreaks ==
    (Scraped /\ ~scrIn.decl /\ scrOut.kind = "return") =>
        /\ ~Contains(scrOut.full_html, <<"\n">>)
        /\ ~Contains(scrOut.full_html, <<"\r">>)
        /\ ~Contains(scrOut.full_html, <<"<","b","r","/",">">>)
        /\ ~Contains(scrOut.full_html, <<"<","b","r"," ","/",">">>)
        /\ scrOut.full_html = Strip(scrOut.full_html)

----------------------------------------------------------------------------
(* Properties of the value codec.                                          *)

\* a date-time cut to whole seconds
Truncated(v) == IF v.t = "datetime" THEN [v EXCEPT !.microsecond = 0] ELSE v

\* C10: for every boolean, integer and date-time value v (those with a
\* time zone or a sub-second part included), _to_python(_from_python(v))
\* equals v, for date-times up to truncation to whole seconds.
C10_RoundTrip ==
    (back # NoValue /\ pyVal.t \in {"bool", "int", "datetime"}) =>
        back = Truncated(pyVal)

\* C12: _from_python writes every date-time as exactly
\* 'YYYY-MM-DDThh:mm:ssZ' (whole seconds, no fraction, no UTC offset, one
\* 'Z' at the end), also when it has a microsecond part or a time zone,
\* and every date as 'YYYY-MM-DDT00:00:00Z'.
C12_SecondPrecisionNoOffset ==
    (wire # NoneT) =>
        /\ pyVal.t = "datetime" =>
              wire = SolrDateText(pyVal.year, pyVal.month, pyVal.day, pyVal.hour,
                                  pyVal.minute, pyVal.second, <<>>, <<>>)
        /\ pyVal.t = "date" =>
              wire = SolrDateText(pyVal.year, pyVal.month, pyVal.day, 0, 0, 0, <<>>, <<>>)

\* the date-time that the six fields of a date text name, if there is one
FieldsInRange(t) ==
    MakeDatetime(TextToNat(SubSeq(t, 1, 4)), TextToNat(SubSeq(t, 6, 7)),
                 TextToNat(SubSeq(t, 9, 10)), TextToNat(SubSeq(t, 12, 13)),
                 TextToNat(SubSeq(t, 15, 16)), TextToNat(SubSeq(t, 18, 19))).t = "datetime"

\* the value the rules of C11 give for a value that is not a sequence
Converted(value, out) ==
    IF value.t \in {"int", "float"} THEN out = value
    ELSE IF value.t # "str" THEN out.t # "raise"
    ELSE IF value.v = <<"t","r","u","e">> THEN out = [t |-> "bool", v |-> TRUE]
    ELSE IF value.v = <<"f","a","l","s","e">> THEN out = [t |-> "bool", v |-> FALSE]
    ELSE IF DatetimeRegexMatches(value.v) /\ FieldsInRange(value.v)
    THEN /\ out.t = "datetime"
         /\ out.year = TextToNat(SubSeq(value.v, 1, 4))
         /\ out.month = TextToNat(SubSeq(value.v, 6, 7))
         /\ out.day = TextToNat(SubSeq(value.v, 9, 10))
         /\ out.hour = TextToNat(SubSeq(value.v, 12, 13))
         /\ out.minute = TextToNat(SubSeq(value.v, 15, 16))
         /\ out.second = TextToNat(SubSeq(value.v, 18, 19))
         /\ out.microsecond = 0
    ELSE IF DatetimeRegexMatches(value.v) THEN out = value
    ELSE IF literal_eval(value).t # "raise" THEN out = literal_eval(value)
    ELSE out = value

\* C11: _to_python applies its rules in a fixed order and yields a value
\* for every text: a number is returned unchanged, a sequence is replaced
\* by its first element, 'true' and 'false' become booleans, a text in the
\* date format becomes a date-time of its integer fields (the fraction
\* dropped), any other text is parsed as a literal, and a text for which
\* every rule fails, one in the date format with a field out of range
\* included, is returned unchanged and raises nothing.
C11_ToPythonOrderedTotal ==
    (toPyOut # NoValue /\ ~(toPyIn.t = "list" /\ toPyIn.v = <<>>)) =>
        Converted(IF toPyIn.t = "list" THEN toPyIn.v[1] ELSE toPyIn, toPyOut)

----------------------------------------------------------------------------
(* Properties of the update documents.                                     *)

\* the values of a document, field by field, each with the name of its field
RECURSIVE NamedValues(_)
NamedValues(items) ==
    IF items = <<>> THEN <<>>
    ELSE LET value == Head(items).value
             values == IF value.t = "list" THEN value.v ELSE <<value>>
         IN  (IF Head(items).key = <<"b","o","o","s","t">> THEN <<>>
              ELSE [i \in 1..Len(values) |-> [name |-> Head(items).key, bit |-> values[i]]])
                 \o NamedValues(Tail(items))

\* a value that is neither null nor a zero-length string
HasContent(bit) == bit # PyNone /\ bit # [t |-> "str", v |-> <<>>]

\* C13: for each field other than 'boost', _build_doc emits exactly one
\* field element per value that is neither null nor a zero-length string:
\* one null or empty value gives no element, and a sequence of N values
\* gives its non-null, non-empty values in the given order (N elements
\* when none is null or empty); nothing is raised for the omitted ones.
C13_OneElementPerValue ==
    (~buildIn.none) =>
        LET kept == SelectSeq(NamedValues(buildIn.doc.items), LAMBDA p : HasContent(p.bit))
            fields == doc_elem.fields
        IN  /\ Len(fields) = Len(kept)
            /\ \A i \in 1..Len(kept) :
                  /\ fields[i].name = kept[i].name
                  /\ fields[i].text = _from_python(kept[i].bit)
            /\ \A i \in 1..Len(buildIn.doc.items) :
                  LET item == buildIn.doc.items[i]
                      named == SelectSeq(fields, LAMBDA f : f.name = item.key)
                  IN  item.key # <<"b","o","o","s","t">> =>
                        /\ ~HasContent(item.value) => named = <<>>
                        /\ (item.value.t = "list"
                              /\ \A j \in 1..Len(item.value.v) : HasContent(item.value.v[j]))
                             => Len(named) = Len(item.value.v)

C13_Witness ==
    /\ ~buildIn.none
    /\ buildIn.doc.items =
          << [key |-> <<"i","d">>,
              value |-> [t |-> "list", v |-> << [t |-> "str", v |-> <<>>],
                                                [t |-> "str", v |-> <<"x">>] >>]],
             [key |-> <<"a","<">>,
              value |-> [t |-> "list", v |-> << [t |-> "int", v |-> 7], PyNone >>]] >>
    /\ Len(doc_elem.fields) = 2
    /\ doc_elem.fields[1].name = <<"i","d">> /\ doc_elem.fields[1].text = <<"x">>
    /\ doc_elem.fields[2].name = <<"a","<">> /\ doc_elem.fields[2].text = <<"7">>

----------------------------------------------------------------------------
(* Properties of sanitize.                                                 *)

\* the characters 0x00-0x08, 0x0B-0x0C and 0x0E-0x1F
ControlChars ==
    { "\\x00", "\\x01", "\\x02", "\\x03", "\\x04", "\\x05", "\\x06", "\\x07", "\\x08",
      "\\x0b", "\\x0c",
      "\\x0e", "\\x0f", "\\x10", "\\x11", "\\x12", "\\x13", "\\x14", "\\x15", "\\x16",
      "\\x17", "\\x18", "\\x19", "\\x1a", "\\x1b", "\\x1c", "\\x1d", "\\x1e", "\\x1f" }

IsClean(text) == \A i \in 1..Len(text) : text[i] \notin ControlChars

\* C14: sanitize is idempotent and leaves clean text alone: for every text
\* s, sanitize(sanitize(s)) = sanitize(s); sanitize(s) holds none of the
\* characters 0x00-0x08, 0x0B-0x0C, 0x0E-0x1F; and when s holds none of
\* them (tab, newline and carriage return are allowed), sanitize(s) = s.
C14_SanitizeIdempotentClean ==
    (sanOut # NoneT) =>
        /\ sanitize(sanOut) = sanOut
        /\ IsClean(sanOut)
        /\ IsClean(sanIn) => sanOut = sanIn

----------------------------------------------------------------------------
(* Properties of the URL join.                                             *)

\* the base without the slashes at its end, one slash, and the path
\* without the slashes at its start
JoinedWithOneSlash ==
    full_url = RStripSlash(url) \o <<"/">> \o LStripSlash(joinPath)

\* C15: for every base URL and every request path, with any number of
\* slashes at the end of the base and at the start of the path (none
\* included, and the empty path included), _create_full_url joins the two
\* with exactly one slash: never two at the join, never none.
C15_JoinExactlyOneSlash ==
    (joinPath # NoneT) => JoinedWithOneSlash

\* C15 as amended: the same for every path that is not empty; for the
\* empty path the result is the base URL as it was configured.
C15_JoinNonEmptyPath ==
    (joinPath # NoneT) =>
        IF joinPath # <<>> THEN JoinedWithOneSlash ELSE full_url = url

C15_Witness ==
    /\ url = <<"h",":","/","/","s","/","/">>
    /\ joinPath = <<"/","/","a","/","/","b">>
    /\ full_url = <<"h",":","/","/","s","/","a","/","/","b">>

----------------------------------------------------------------------------
(* Properties of the query path.                                           *)

\* the parameters of the search in flight, url-encoded with wt=json
EncodedParams ==
    safe_urlencode(SetItem(SearchParams(op.q, op.kwargs), <<"w","t">>, WtJson))

\* C16: a search whose url-encoded parameters (with wt=json) are shorter
\* than 1024 is sent as one GET to select/?<querystring>; one whose encoded
\* parameters are 1024 long or longer is sent as one POST to select/ with
\* the encoded string as body and a form-urlencoded content type; 1024
\* itself goes to POST, and the parameters sent are the same in both cases.
C16_LongQueryGoesToPost ==
    (op.name = "search") =>
        /\ Len(sent) = 1
        /\ Contains(EncodedParams, <<"w","t","=","j","s","o","n">>)
        /\ IF Len(EncodedParams) < 1024
           THEN /\ sent[1].method = <<"G","E","T">>
                /\ sent[1].url = RStripSlash(url)
                                    \o <<"/","s","e","l","e","c","t","/","?">> \o EncodedParams
                /\ sent[1].body = NoneT
           ELSE /\ sent[1].method = <<"P","O","S","T">>
                /\ sent[1].url = RStripSlash(url) \o <<"/","s","e","l","e","c","t","/">>
                /\ sent[1].body = EncodedParams
                /\ sent[1].headers = "application/x-www-form-urlencoded; charset=utf-8"

C16_Witness ==
    /\ op.name = "search"
    /\ Len(EncodedParams) = 1024
    /\ Len(op.q) < 1000
    /\ Len(sent) = 1
    /\ sent[1].method = <<"P","O","S","T">>
    /\ sent[1].body = EncodedParams

\* C17: suggest_terms makes the same result of both shapes of 'terms': a
\* flat list [field, values, field, values, ...] and a mapping
\* {field: values} with the same fields and values both give, for each
\* field, the list of (term, count) pairs taken two by two from its values
\* in order; the pairing loop comes to an end for every finite list of
\* values.
C17_BothShapesSamePairs ==
    (~termsIn.none) =>
        /\ termsOut.kind = "return"
        /\ Len(termsOut.res.items) = Len(termsIn.mapping)
        /\ \A i \in 1..Len(termsIn.mapping) :
              LET values == termsIn.mapping[i].value
                  pairs == termsOut.res.items[i].value
              IN  /\ termsOut.res.items[i].key = termsIn.mapping[i].key
                  /\ Len(values) \in { 2 * Len(pairs), 2 * Len(pairs) + 1 }
                  /\ \A j \in 1..Len(pairs) :
                        pairs[j] = <<values[2 * j - 1], values[2 * j]>>

\* the operations that send an update envelope
UpdateOps == {"add", "delete", "commit", "optimize"}

\* the characters with a meaning in XML; in an envelope they are content
\* when they stand alone, since the markup is in pieces of several characters
XmlSpecial == {"<", ">", "&"}

\* the pieces that open the one directive of an operation
DirectiveOpeners(name) ==
    CASE name = "add" -> {"<add>", "<add />", "<add commitWithin=\""}
      [] name = "delete" -> {"<delete><id>", "<delete><query>"}
      [] name = "commit" -> {"<commit />", "<commit expungeDeletes=\""}
      [] name = "optimize" -> {"<optimize />", "<optimize maxSegments=\""}

HasPiece(text, piece) == \E i \in 1..Len(text) : text[i] = piece

\* C19: every update envelope sent by add, delete, commit and optimize is
\* a well-formed XML document for every argument value: it opens with the
\* directive asked for, and no '<', '>' or '&' of a field name, a field
\* value, a delete id or a delete query is in it unescaped.
C19_EnvelopeWellFormed ==
    (op.name \in UpdateOps /\ Len(sent) = 1) =>
        /\ sent[1].body # <<>>
        /\ sent[1].body[1] \in DirectiveOpeners(op.name)
        /\ \A i \in 1..Len(sent[1].body) : sent[1].body[i] \notin XmlSpecial

\* C20: the query string of an update request carries at most one of
\* 'commit' and 'softCommit', and every update request of add, delete,
\* commit and optimize carries 'commit=true' or 'commit=false' and never a
\* 'softCommit' parameter, whatever softCommit value the caller passed.
C20_CommitNeverSoftCommit ==
    (op.name \in UpdateOps /\ Len(sent) = 1) =>
        /\ HasPiece(sent[1].url, "commit=")
        /\ ~HasPiece(sent[1].url, "softCommit=")

\* the request an operation sends when nothing else runs on the client
OwnRequest(o) ==
    LET a == Prepare(o).args
    IN  [http |-> BuildRequest(url, a.method, a.path, a.body, a.headers),
         request_timeout |-> timeout]

\* every call in flight has sent the request of its own arguments and the
\* configuration, and has the result of its own response
OwnRequestOwnResult ==
    \A p \in Callers :
        LET own == OwnRequest(calls[p].op)
            ownReturn == HandleFetch(own.http, calls[p].fetched)
        IN  /\ calls[p].pc # "idle" => calls[p].request = own
            /\ calls[p].pc \in {"returned", "done"} => calls[p].returned = ownReturn
            /\ calls[p].pc = "done" => calls[p].result = Finish(calls[p].op, ownReturn)

\* C18: no operation of the client changes the configuration (base URL,
\* timeout, decoder, results class) after construction, and in every
\* interleaving of concurrently running operations on one client the request
\* each operation sends and the result it returns depend only on its own
\* arguments, the configuration and its own response, never on another
\* operation in flight.
C18_OperationsIndependent ==
    /\ []OwnRequestOwnResult
    /\ [][UNCHANGED <<url, timeout, decoder, results_cls>>]_vars

C18_Witness ==
    /\ calls[1].pc = "done"
    /\ calls[1].op.name = "search"
    /\ calls[1].result.kind = "return"
    /\ calls[2].pc = "fetching"
    /\ calls[2].op.name = "add"
    /\ calls[2].request # calls[1].request

====
